---- MODULE Spec2Model ----
(***************************************************************************)
(* State-machine model of alpha_presenter's playlist store                 *)
(* (src/app/playlist_module.py: MediaItem, PlaylistManager), of the        *)
(* MainWindow handlers that drive it (src/app/ui_module.py) and of the     *)
(* playback manager (src/app/playback_module.py: BasePlaybackManager)      *)
(* with the VLC player behind it.                                          *)
(*                                                                         *)
(* Specifications                                                          *)
(*  - Spec: editing the playlist through the manager and the dialogs.      *)
(*  - SpecPersist: saving and loading, with the files changing in between. *)
(*  - SpecEdit: editing a playlist loaded from a file of three items.      *)
(*  - SpecPlayback: the playback manager, its player and its events.       *)
(*  - SpecBackend: the same, constructed with or without VLC, with the     *)
(*    queries.                                                             *)
(*  - SpecMain: MainWindow's handling of media_ended, with the playlist    *)
(*    and the PlaybackController.                                          *)
(*  - SpecBackground: BackgroundAudioManager, its loop handler running on  *)
(*    the VLC thread between the commands of the GUI thread.               *)
(*                                                                         *)
(* Conventions                                                             *)
(*  - Python's None is the empty tuple <<>>, a present optional value v is *)
(*    the one-element tuple <<v>>.                                         *)
(*  - Python list indices are 0-based; TLA+ sequences are 1-based.  The    *)
(*    cursor current_index keeps the program's 0-based value (-1 = none).  *)
(*  - last and origin are history variables: they record the call that     *)
(*    made the latest step and, for every entry of the list, the place the *)
(*    same MediaItem object had before that call (0 = created by it).      *)
(***************************************************************************)
EXTENDS Integers, Sequences, FiniteSets, TLC

VARIABLES
    items,                  \* PlaylistManager._items
    current_index,          \* PlaylistManager.current_index
    current_playlist_path,  \* PlaylistManager.current_playlist_path
    settings,               \* the QSettings store behind SettingsManager
    disk,                   \* playlist files on disk: path -> content
    media_files,            \* the media files that exist on disk
    instance,               \* BasePlaybackManager.instance
    player,                 \* BasePlaybackManager.player
    current_media_path,     \* BasePlaybackManager.current_media_path
    timers,                 \* pending QTimer.singleShot(100, ...) of the manager
    _loop,                  \* BackgroundAudioManager._loop
    callback,               \* the VLC thread inside _on_media_end_reached
    clock,                  \* time since the last loop reload (-1: none yet)
    queued,                 \* media_ended signals queued for MainWindow
    playback_update_timer,  \* MainWindow.playback_update_timer.isActive()
    slider_down,            \* the seek slider is pressed (isSliderDown())
    origin,                 \* history: 1-based place before the last call
    last                    \* history: the last call, its result, its signals

\* the fields of the playback manager
playback == <<instance, player, current_media_path, timers, _loop, callback,
              clock, queued, playback_update_timer, slider_down>>

\* what the methods of BasePlaybackManager leave alone
background == <<_loop, callback, clock, queued, playback_update_timer,
                slider_down>>

vars == <<items, current_index, current_playlist_path, settings, disk,
          media_files, instance, player, current_media_path, timers, _loop,
          callback, clock, queued, playback_update_timer, slider_down,
          origin, last>>

----------------------------------------------------------------------------
(* Bounds of the model *)

MaxLen == 3     \* longest playlist explored
MaxRows == 2    \* longest playlist of typed entries explored
MaxBatch == 2   \* most files picked in one "Add Media" dialog

----------------------------------------------------------------------------
(* Python values *)

None == <<>>
Some(v) == <<v>>

\* Python truthiness of an optional string ("if media_type", "if display_name")
Truthy(opt) == opt # None /\ opt[1] # ""

----------------------------------------------------------------------------
(* The file system the program runs against *)

\* the media files there are when the program starts
ExistingFiles == {"A.jpg", "B.mp4", "C.mp3"}

\* the paths the calls of the model are made with: existing files, a file
\* that does not exist, and the empty path
MediaPaths == {"A.jpg", "B.mp4", "missing.mp4", ""}

\* the media_type arguments add_item is called with (the control surface
\* always leaves it out)
MediaTypeArgs == {None}

\* playlist files: regular files, whose content disk holds; a path that
\* accepts and discards what is written to it; a path open() refuses
PlaylistFiles == {"show.json"}
SinkPaths == {"/dev/null"}
UnwritablePaths == {"/readonly/show.json"}

\* QFileInfo(path).exists()
Exists(path) == path \in media_files

\* QFileInfo(path).suffix().lower()
Suffix(path) ==
    CASE path = "A.jpg" -> "jpg"
      [] path = "B.mp4" -> "mp4"
      [] path = "C.mp3" -> "mp3"
      [] path = "missing.mp4" -> "mp4"
      [] OTHER -> ""

\* QFileInfo(path).fileName(): the modelled paths have no directory part
FileName(path) == path

\* QFileInfo(path).absolutePath(): relative names resolve against the
\* working directory; the empty QFileInfo has an empty absolute path
AbsolutePath(path) == IF path = "" THEN "" ELSE "/cwd"

----------------------------------------------------------------------------
(* Python list primitives on 1-based sequences, indices as in Python *)

\* list.insert(position, x): a negative position counts from the end, and
\* the result is clamped to [0, len]
PyInsert(list, position, x) ==
    LET n == Len(list)
        p0 == IF position < 0 THEN position + n ELSE position
        p == IF p0 < 0 THEN 0 ELSE IF p0 > n THEN n ELSE p0
    IN  SubSeq(list, 1, p) \o <<x>> \o SubSeq(list, p + 1, n)

\* del list[index] / list.pop(index), for 0 <= index < len
PyDel(list, index) ==
    SubSeq(list, 1, index) \o SubSeq(list, index + 2, Len(list))

----------------------------------------------------------------------------
(* MediaItem *)

\* MediaItem._guess_media_type
guess_media_type(file_path) ==
    IF file_path = "" THEN "unknown"
    ELSE LET ext == Suffix(file_path)
         IN  IF ext \in {"jpg", "jpeg", "png", "bmp", "gif"} THEN "image"
             ELSE IF ext \in {"mp4", "avi", "wmv", "mkv", "mov", "flv"} THEN "video"
             ELSE IF ext \in {"mp3", "wav", "aac", "ogg", "flac", "m4a"} THEN "audio"
             ELSE "unknown"

\* MediaItem.__init__: media_type and display_name are optional strings,
\* duration, start_point and end_point optional integers
MediaItem(file_path, media_type, display_name, duration, loop, start_point, end_point) ==
    [ file_path    |-> file_path,
      media_type   |-> IF Truthy(media_type) THEN media_type[1]
                       ELSE guess_media_type(file_path),
      display_name |-> IF Truthy(display_name) THEN display_name[1]
                       ELSE FileName(file_path),
      duration     |-> duration,
      loop         |-> loop,
      start_point  |-> start_point,
      end_point    |-> end_point ]

\* MediaItem.to_dict: the keys of the JSON object are the field names
to_dict(item) ==
    [ file_path    |-> item.file_path,
      media_type   |-> item.media_type,
      display_name |-> item.display_name,
      duration     |-> item.duration,
      loop         |-> item.loop,
      start_point  |-> item.start_point,
      end_point    |-> item.end_point ]

----------------------------------------------------------------------------
(* JSON, as the json module reads and writes it.  A JSON value is the pair  *)
(* <<type, value>>; the value of an object is a function from its keys to   *)
(* JSON values, the value of an array a sequence of JSON values.  The text  *)
(* of a file is the JSON value it denotes, or Malformed.                    *)

JNull == <<"null", <<>>>>
JString(s) == <<"string", s>>
JNumber(n) == <<"number", n>>
JBool(b) == <<"boolean", b>>
JArray(elements) == <<"array", elements>>
JObject(members) == <<"object", members>>
Malformed == <<"malformed", <<>>>>

json_type(value) == value[1]
json_value(value) == value[2]

\* json.load succeeds on the text
well_formed(text) == json_type(text) # "malformed"

\* json.load: the parsed document keeps the shape of the text; its scalars
\* are read through py
json_load(text) == text

\* a JSON scalar as the Python value json.load makes of it: null is None
py(value) == IF json_type(value) = "null" THEN None ELSE Some(json_value(value))

\* dict.get(key, default) on a parsed object
dict_get(data, key, default) ==
    IF key \in DOMAIN json_value(data) THEN json_value(data)[key] ELSE default

\* json.dump of an optional string / an optional integer
json_string(opt) == IF opt = None THEN JNull ELSE JString(opt[1])
json_number(opt) == IF opt = None THEN JNull ELSE JNumber(opt[1])

\* json.dump writing nothing of an item but its file_path
json_dump_paths_only(data) ==
    JObject([
        settings |-> JObject([default_image_duration |->
                         JNumber(data.settings.default_image_duration)]),
        items |-> JArray([k \in 1..Len(data.items) |->
            JObject([file_path |-> JString(data.items[k].file_path)])])])

\* json.dump of the dictionary save_playlist builds
json_dump(data) ==
    JObject([
        settings |-> JObject([default_image_duration |->
                         JNumber(data.settings.default_image_duration)]),
        items |-> JArray([k \in 1..Len(data.items) |->
            JObject([
                file_path    |-> JString(data.items[k].file_path),
                media_type   |-> JString(data.items[k].media_type),
                display_name |-> JString(data.items[k].display_name),
                duration     |-> json_number(data.items[k].duration),
                loop         |-> JBool(data.items[k].loop),
                start_point  |-> json_number(data.items[k].start_point),
                end_point    |-> json_number(data.items[k].end_point)])])])

----------------------------------------------------------------------------
(* PlaylistManager: the methods as functions of the manager's state.        *)
(* self is a record: items (each entry paired with the place it had when    *)
(* the call began, 0 for an entry the call creates), current_index,         *)
(* current_playlist_path, and what the call has produced so far: emitted    *)
(* (the signals, in order), ret (the return value) and raised.              *)

DefaultImageDuration == 5000

\* settings_manager.get_setting("defaultImageDuration", 5000), or 5000 for
\* a PlaylistManager made without settings_manager (store = None)
default_image_duration(store) ==
    IF store = None THEN 5000 ELSE store.defaultImageDuration

\* settings_manager.get_setting("autoPlayNext", True): the store, an INI
\* file, holds "true" or "false"
auto_play_next(store) == store.autoPlayNext = "true"

Emit(self, signal) == [self EXCEPT !.emitted = Append(@, signal)]

\* add_item without the check that the file exists
add_item_unchecked(self, store, file_path, media_type, position) ==
    LET item == MediaItem(file_path, media_type, None, None, FALSE, None, None)
        entry == [item |-> item, from |-> 0]
        list == IF position = -1 \/ position >= Len(self.items)
                THEN Append(self.items, entry)
                ELSE PyInsert(self.items, position, entry)
    IN  Emit([self EXCEPT !.items = list], "playlist_changed")

\* add_item giving every entry the default image duration
add_item_duration_for_all(self, store, file_path, media_type, position) ==
    LET item0 == MediaItem(file_path, media_type, None, None, FALSE, None, None)
        item == [item0 EXCEPT !.duration = Some(default_image_duration(store))]
    IN  IF item.file_path = "" \/ ~Exists(item.file_path)
        THEN self
        ELSE LET entry == [item |-> item, from |-> 0]
                 list == IF position = -1 \/ position >= Len(self.items)
                         THEN Append(self.items, entry)
                         ELSE PyInsert(self.items, position, entry)
             IN  Emit([self EXCEPT !.items = list], "playlist_changed")

\* PlaylistManager.add_item
add_item(self, store, file_path, media_type, position) ==
    LET item0 == MediaItem(file_path, media_type, None, None, FALSE, None, None)
        item == IF item0.media_type = "image" /\ item0.duration = None
                THEN [item0 EXCEPT !.duration = Some(default_image_duration(store))]
                ELSE item0
    IN  IF item.file_path = "" \/ ~Exists(item.file_path)
        THEN self
        ELSE LET entry == [item |-> item, from |-> 0]
                 list == IF position = -1 \/ position >= Len(self.items)
                         THEN Append(self.items, entry)
                         ELSE PyInsert(self.items, position, entry)
             IN  Emit([self EXCEPT !.items = list], "playlist_changed")

\* remove_item without the case of the selected last entry
remove_item_last_case_dropped(self, index) ==
    IF 0 <= index /\ index < Len(self.items)
    THEN LET list == PyDel(self.items, index)
             ci == self.current_index
             cursor == IF ci > index THEN ci - 1 ELSE ci
         IN  Emit([self EXCEPT !.items = list, !.current_index = cursor],
                  "playlist_changed")
    ELSE self

\* remove_item moving the cursor down whenever it is at or past index
remove_item_always_down(self, index) ==
    IF 0 <= index /\ index < Len(self.items)
    THEN LET list == PyDel(self.items, index)
             ci == self.current_index
             cursor == IF ci >= index THEN ci - 1 ELSE ci
         IN  Emit([self EXCEPT !.items = list, !.current_index = cursor],
                  "playlist_changed")
    ELSE self

\* remove_item leaving the cursor where it is
remove_item_keeps_cursor(self, index) ==
    IF 0 <= index /\ index < Len(self.items)
    THEN Emit([self EXCEPT !.items = PyDel(self.items, index)],
              "playlist_changed")
    ELSE self

\* remove_item without the lower bound, so that a negative index counts
\* from the end as in "del list[index]"
remove_item_negative_index(self, index) ==
    IF index < Len(self.items) /\ -Len(self.items) <= index
    THEN LET at == IF index < 0 THEN index + Len(self.items) ELSE index
             list == PyDel(self.items, at)
             ci == self.current_index
             cursor == IF ci >= index
                       THEN IF ci = index /\ ci = Len(list) THEN ci - 1
                            ELSE IF ci > index THEN ci - 1
                            ELSE ci
                       ELSE ci
         IN  Emit([self EXCEPT !.items = list, !.current_index = cursor],
                  "playlist_changed")
    ELSE self

\* PlaylistManager.remove_item
remove_item(self, index) ==
    IF 0 <= index /\ index < Len(self.items)
    THEN LET list == PyDel(self.items, index)
             ci == self.current_index
             cursor == IF ci >= index
                       THEN IF ci = index /\ ci = Len(list) THEN ci - 1
                            ELSE IF ci > index THEN ci - 1
                            ELSE ci
                       ELSE ci
         IN  Emit([self EXCEPT !.items = list, !.current_index = cursor],
                  "playlist_changed")
    ELSE self

\* move_item inserting one place early when the entry moves up, as if the
\* pop had to be compensated
move_item_compensated(self, old_index, new_index) ==
    IF /\ 0 <= old_index /\ old_index < Len(self.items)
       /\ 0 <= new_index /\ new_index < Len(self.items)
    THEN LET entry == self.items[old_index + 1]
             at == IF old_index < new_index THEN new_index - 1 ELSE new_index
             list == PyInsert(PyDel(self.items, old_index), at, entry)
             ci == self.current_index
             cursor == IF ci = old_index THEN new_index
                       ELSE IF old_index < ci /\ ci <= new_index THEN ci - 1
                       ELSE IF new_index <= ci /\ ci < old_index THEN ci + 1
                       ELSE ci
         IN  Emit([self EXCEPT !.items = list, !.current_index = cursor],
                  "playlist_changed")
    ELSE self

\* move_item with the upper end of the first cursor range left out
move_item_strict_range(self, old_index, new_index) ==
    IF /\ 0 <= old_index /\ old_index < Len(self.items)
       /\ 0 <= new_index /\ new_index < Len(self.items)
    THEN LET entry == self.items[old_index + 1]
             list == PyInsert(PyDel(self.items, old_index), new_index, entry)
             ci == self.current_index
             cursor == IF ci = old_index THEN new_index
                       ELSE IF old_index < ci /\ ci < new_index THEN ci - 1
                       ELSE IF new_index <= ci /\ ci < old_index THEN ci + 1
                       ELSE ci
         IN  Emit([self EXCEPT !.items = list, !.current_index = cursor],
                  "playlist_changed")
    ELSE self

\* move_item leaving current_index alone
move_item_keeps_cursor(self, old_index, new_index) ==
    IF /\ 0 <= old_index /\ old_index < Len(self.items)
       /\ 0 <= new_index /\ new_index < Len(self.items)
    THEN LET entry == self.items[old_index + 1]
             list == PyInsert(PyDel(self.items, old_index), new_index, entry)
         IN  Emit([self EXCEPT !.items = list], "playlist_changed")
    ELSE self

\* PlaylistManager.move_item
move_item(self, old_index, new_index) ==
    IF /\ 0 <= old_index /\ old_index < Len(self.items)
       /\ 0 <= new_index /\ new_index < Len(self.items)
    THEN LET entry == self.items[old_index + 1]
             list == PyInsert(PyDel(self.items, old_index), new_index, entry)
             ci == self.current_index
             cursor == IF ci = old_index THEN new_index
                       ELSE IF old_index < ci /\ ci <= new_index THEN ci - 1
                       ELSE IF new_index <= ci /\ ci < old_index THEN ci + 1
                       ELSE ci
         IN  Emit([self EXCEPT !.items = list, !.current_index = cursor],
                  "playlist_changed")
    ELSE self

\* PlaylistManager.get_item
get_item(self, index) ==
    IF 0 <= index /\ index < Len(self.items)
    THEN Some(self.items[index + 1].item)
    ELSE None

\* PlaylistManager.get_current_item
get_current_item(self) == get_item(self, self.current_index)

\* set_current_index accepting -1 on any list
set_current_index_unset_anywhere(self, index) ==
    IF 0 <= index /\ index < Len(self.items)
    THEN [Emit([self EXCEPT !.current_index = index], "current_item_changed")
            EXCEPT !.ret = "True"]
    ELSE IF index = -1
    THEN [self EXCEPT !.current_index = -1, !.ret = "True"]
    ELSE [self EXCEPT !.ret = "False"]

\* PlaylistManager.set_current_index
set_current_index(self, index) ==
    IF 0 <= index /\ index < Len(self.items)
    THEN [Emit([self EXCEPT !.current_index = index], "current_item_changed")
            EXCEPT !.ret = "True"]
    ELSE IF self.items = <<>> /\ index = -1
    THEN [self EXCEPT !.current_index = -1, !.ret = "True"]
    ELSE [self EXCEPT !.ret = "False"]

\* select_next without the test for the end of the list
select_next_past_end(self) ==
    IF self.items = <<>> THEN [self EXCEPT !.ret = "False"]
    ELSE Emit([self EXCEPT !.current_index = @ + 1, !.ret = "True"],
              "current_item_changed")

\* PlaylistManager.select_next
select_next(self) ==
    IF self.items = <<>> THEN [self EXCEPT !.ret = "False"]
    ELSE IF self.current_index < Len(self.items) - 1
    THEN [Emit([self EXCEPT !.current_index = @ + 1], "current_item_changed")
            EXCEPT !.ret = "True"]
    ELSE [self EXCEPT !.ret = "False"]

\* select_previous stepping down from index 0 as well
select_previous_from_zero(self) ==
    IF self.items = <<>> THEN [self EXCEPT !.ret = "False"]
    ELSE IF self.current_index >= 0
    THEN [Emit([self EXCEPT !.current_index = @ - 1], "current_item_changed")
            EXCEPT !.ret = "True"]
    ELSE [self EXCEPT !.ret = "False"]

\* PlaylistManager.select_previous
select_previous(self) ==
    IF self.items = <<>> THEN [self EXCEPT !.ret = "False"]
    ELSE IF self.current_index > 0
    THEN [Emit([self EXCEPT !.current_index = @ - 1], "current_item_changed")
            EXCEPT !.ret = "True"]
    ELSE [self EXCEPT !.ret = "False"]

\* clear_playlist keeping the remembered path
clear_playlist_keeps_path(self) ==
    Emit([self EXCEPT !.items = <<>>, !.current_index = -1], "playlist_changed")

\* PlaylistManager.clear_playlist
clear_playlist(self) ==
    Emit([self EXCEPT !.items = <<>>, !.current_index = -1,
                      !.current_playlist_path = None],
         "playlist_changed")

\* the document save_playlist hands to json.dump
playlist_data(self, store) ==
    [ settings |-> [default_image_duration |-> default_image_duration(store)],
      items    |-> [k \in 1..Len(self.items) |-> to_dict(self.items[k].item)] ]

\* save_playlist recording the path before the file is opened
save_playlist_records_first(self, file_path) ==
    IF file_path \in PlaylistFiles \cup SinkPaths
    THEN [self EXCEPT !.current_playlist_path = Some(file_path)]
    ELSE [self EXCEPT !.current_playlist_path = Some(file_path),
                      !.raised = "IOError"]

\* PlaylistManager.save_playlist, the manager's side: open(file_path, 'w')
\* fails with IOError on a path that cannot be written, and the error is
\* raised again after being logged
save_playlist(self, file_path) ==
    IF file_path \in PlaylistFiles \cup SinkPaths
    THEN [self EXCEPT !.current_playlist_path = Some(file_path)]
    ELSE [self EXCEPT !.raised = "IOError"]

\* PlaylistManager.save_playlist, the file system's side: json.dump into
\* the opened file
written_files(self, store, files, file_path) ==
    IF file_path \in PlaylistFiles
    THEN [files EXCEPT ![file_path] = Some(json_dump(playlist_data(self, store)))]
    ELSE files

\* from_dict with True for the default of 'loop'
from_dict_loop_default_true(data) ==
    IF json_type(data) # "object"
    THEN [raised |-> "AttributeError", item |-> None]
    ELSE LET file_path == dict_get(data, "file_path", JNull)
         IN  IF json_type(file_path) # "string"
             THEN [raised |-> "TypeError", item |-> None]
             ELSE [raised |-> "None",
                   item |-> Some(MediaItem(
                       json_value(file_path),
                       py(dict_get(data, "media_type", JNull)),
                       py(dict_get(data, "display_name", JNull)),
                       py(dict_get(data, "duration", JNull)),
                       json_value(dict_get(data, "loop", JBool(TRUE))),
                       py(dict_get(data, "start_point", JNull)),
                       py(dict_get(data, "end_point", JNull))))]

\* MediaItem.from_dict on one element of the 'items' array.  data.get fails
\* on anything but a dict, and QFileInfo(file_path) on anything but a string;
\* the result is [raised, item].
from_dict(data) ==
    IF json_type(data) # "object"
    THEN [raised |-> "AttributeError", item |-> None]
    ELSE LET file_path == dict_get(data, "file_path", JNull)
         IN  IF json_type(file_path) # "string"
             THEN [raised |-> "TypeError", item |-> None]
             ELSE [raised |-> "None",
                   item |-> Some(MediaItem(
                       json_value(file_path),
                       py(dict_get(data, "media_type", JNull)),
                       py(dict_get(data, "display_name", JNull)),
                       py(dict_get(data, "duration", JNull)),
                       json_value(dict_get(data, "loop", JBool(FALSE))),
                       py(dict_get(data, "start_point", JNull)),
                       py(dict_get(data, "end_point", JNull))))]

RECURSIVE loaded_items(_, _)
\* the loop of load_playlist over the 'items' array, from element k on: the
\* entries built so far and the exception that ended the loop, if any
loaded_items(item_datas, k) ==
    IF k > Len(item_datas) THEN [raised |-> "None", items |-> <<>>]
    ELSE LET made == from_dict(item_datas[k])
         IN  IF made.raised # "None"
             THEN [raised |-> made.raised, items |-> <<>>]
             ELSE LET item == made.item[1]
                      rest == loaded_items(item_datas, k + 1)
                  IN  IF item.file_path # "" /\ Exists(item.file_path)
                      THEN [rest EXCEPT !.items =
                               <<[item |-> item, from |-> 0]>> \o @]
                      ELSE rest

\* what "for item_data in playlist_data.get('items', [])" iterates over: the
\* elements of an array; nothing for an empty string or object; a null,
\* number or boolean is not iterable; iterating a string or an object
\* yields strings
iterated(value) ==
    CASE json_type(value) = "array" ->
             [raised |-> "None", elements |-> json_value(value)]
      [] json_type(value) \in {"null", "number", "boolean"} ->
             [raised |-> "TypeError", elements |-> <<>>]
      [] json_type(value) = "string" ->
             [raised |-> "None",
              elements |-> IF json_value(value) = "" THEN <<>>
                           ELSE <<JString("c")>>]
      [] OTHER ->
             [raised |-> "None",
              elements |-> IF DOMAIN json_value(value) = {} THEN <<>>
                           ELSE <<JString("key")>>]

\* load_playlist keeping the entries whose file is missing
load_playlist_keeps_missing(self, files, file_path) ==
    IF file_path \notin DOMAIN files \/ files[file_path] = None
    THEN [self EXCEPT !.raised = "IOError"]
    ELSE IF ~well_formed(files[file_path][1])
    THEN [self EXCEPT !.raised = "JSONDecodeError"]
    ELSE LET loaded_data == json_load(files[file_path][1])
             cleared == clear_playlist(self)
         IN  IF json_type(loaded_data) # "object"
             THEN [cleared EXCEPT !.raised = "AttributeError"]
             ELSE LET item_datas == iterated(dict_get(loaded_data, "items",
                                                      JArray(<<>>)))
                      kept == [k \in 1..Len(item_datas.elements) |->
                                 [item |-> from_dict(item_datas.elements[k]).item[1],
                                  from |-> 0]]
                  IN  IF item_datas.raised # "None"
                      THEN [cleared EXCEPT !.raised = item_datas.raised]
                      ELSE IF loaded_items(item_datas.elements, 1).raised # "None"
                      THEN [cleared EXCEPT !.raised =
                               loaded_items(item_datas.elements, 1).raised]
                      ELSE LET set == [cleared EXCEPT
                                   !.items = kept,
                                   !.current_index =
                                       IF kept # <<>> THEN 0 ELSE -1,
                                   !.current_playlist_path = Some(file_path)]
                               changed == Emit(set, "playlist_changed")
                           IN  IF get_current_item(changed) # None
                               THEN Emit(changed, "current_item_changed")
                               ELSE changed

\* PlaylistManager.load_playlist: open() fails with IOError on a file that
\* is not there, json.load with JSONDecodeError on text that is not JSON;
\* both are logged and raised again.  The list is cleared next, so that an
\* exception of the conversion leaves the cleared manager behind.
load_playlist(self, files, file_path) ==
    IF file_path \notin DOMAIN files \/ files[file_path] = None
    THEN [self EXCEPT !.raised = "IOError"]
    ELSE IF ~well_formed(files[file_path][1])
    THEN [self EXCEPT !.raised = "JSONDecodeError"]
    ELSE LET loaded_data == json_load(files[file_path][1])
             cleared == clear_playlist(self)
         IN  IF json_type(loaded_data) # "object"
             THEN [cleared EXCEPT !.raised = "AttributeError"]
             ELSE LET item_datas == iterated(dict_get(loaded_data, "items",
                                                      JArray(<<>>)))
                      loaded == loaded_items(item_datas.elements, 1)
                  IN  IF item_datas.raised # "None"
                      THEN [cleared EXCEPT !.raised = item_datas.raised]
                      ELSE IF loaded.raised # "None"
                      THEN [cleared EXCEPT !.raised = loaded.raised]
                      ELSE LET set == [cleared EXCEPT
                                   !.items = loaded.items,
                                   !.current_index =
                                       IF loaded.items # <<>> THEN 0 ELSE -1,
                                   !.current_playlist_path = Some(file_path)]
                               changed == Emit(set, "playlist_changed")
                           IN  IF get_current_item(changed) # None
                               THEN Emit(changed, "current_item_changed")
                               ELSE changed

----------------------------------------------------------------------------
(* MainWindow handlers *)

RECURSIVE add_items(_, _, _)
\* the loop "for path in file_paths: self.playlist_manager.add_item(path)"
add_items(self, store, file_paths) ==
    IF file_paths = <<>> THEN self
    ELSE add_items(add_item(self, store, Head(file_paths), None, -1),
                   store, Tail(file_paths))

\* MainWindow.add_media_to_playlist_dialog, after the dialog returned
\* file_paths: the playlist manager's side
add_media_to_playlist_dialog(self, store, file_paths) ==
    IF file_paths # <<>> THEN add_items(self, store, file_paths) ELSE self

RECURSIVE sorted_reverse(_)
\* sorted(rows, reverse=True)
sorted_reverse(rows) ==
    IF rows = <<>> THEN <<>>
    ELSE LET k == CHOOSE i \in DOMAIN rows : \A j \in DOMAIN rows : rows[j] <= rows[i]
         IN  <<rows[k]>> \o
             sorted_reverse(SubSeq(rows, 1, k - 1) \o SubSeq(rows, k + 1, Len(rows)))

RECURSIVE remove_rows(_, _)
\* the loop "for row in rows_to_remove: if row >= 0: remove_item(row)"
remove_rows(self, rows) ==
    IF rows = <<>> THEN self
    ELSE remove_rows(IF Head(rows) >= 0 THEN remove_item(self, Head(rows)) ELSE self,
                     Tail(rows))

\* the handler removing the rows in the order they were selected in
remove_selected_media_from_playlist_unsorted(self, rows) ==
    remove_rows(self, rows)

\* MainWindow.remove_selected_media_from_playlist; rows are the rows
\* playlist_panel.get_row gives for the selected widget items
remove_selected_media_from_playlist(self, rows) ==
    remove_rows(self, sorted_reverse(rows))

\* MainWindow.add_media_to_playlist_dialog: the settings store's side
browse_path_saved(store, file_paths) ==
    IF file_paths # <<>>
    THEN [store EXCEPT !.lastMediaBrowsePath = AbsolutePath(file_paths[1])]
    ELSE store

----------------------------------------------------------------------------
(* The VLC media player behind BasePlaybackManager.  A player is a record:  *)
(* state (what get_state() reports), media (what set_media installed, or    *)
(* None), volume (0..100) and position (per cent of the length).            *)

\* instance.media_player_new()
NewMediaPlayer ==
    [state |-> "NothingSpecial", media |-> None, volume |-> 100, position |-> 0]

\* the media the player can seek in
SeekableMedia == {"B.mp4", "C.mp3"}

\* player.set_media(media): what was playing is dropped
vlc_set_media(p, mrl) ==
    [p EXCEPT !.media = Some(mrl), !.state = "NothingSpecial", !.position = 0]

\* the value of player.play(): -1 on error, 0 otherwise
vlc_play_result(p, starts) == IF p.media = None \/ ~starts THEN -1 ELSE 0

\* player.play(): a stopped or fresh player opens its media, a paused one
\* goes on, one that plays or has reached the end or an error stays as it is
vlc_play(p, starts) ==
    IF vlc_play_result(p, starts) = -1 THEN p
    ELSE IF p.state \in {"NothingSpecial", "Stopped"}
    THEN [p EXCEPT !.state = "Opening"]
    ELSE IF p.state = "Paused" THEN [p EXCEPT !.state = "Playing"]
    ELSE p

\* player.pause(): "This is a toggle: pause/resume"
vlc_pause(p) ==
    IF p.state = "Playing" THEN [p EXCEPT !.state = "Paused"]
    ELSE IF p.state = "Paused" THEN [p EXCEPT !.state = "Playing"]
    ELSE p

\* player.stop()
vlc_stop(p) == [p EXCEPT !.state = "Stopped", !.position = 0]

\* player.is_playing()
vlc_is_playing(p) == p.state = "Playing"

\* player.is_seekable()
vlc_is_seekable(p) ==
    /\ p.state \in {"Playing", "Paused"}
    /\ p.media # None
    /\ p.media[1] \in SeekableMedia

----------------------------------------------------------------------------
(* BasePlaybackManager: the methods as functions of the manager's state.    *)
(* self is a record: instance, player (None or a player), and               *)
(* current_media_path, and what the call has produced so far: emitted,      *)
(* ret, raised, and backend, the calls made on the player, in order;        *)
(* timers counts the single-shot timers that wait for their 100 ms, value   *)
(* is the argument of the signal emitted.                                   *)

\* an attribute that __init__ has not set: reading it raises AttributeError
NoAttribute == <<"AttributeError", "no attribute">>

\* the timers that can wait at one time
MaxTimers == 2

\* what player.get_length() reports: -1 for unknown, else milliseconds
Lengths == {-1, 0, 3000}

\* BasePlaybackManager._on_media_changed, which the player calls from
\* set_media: QTimer.singleShot(100, self._fetch_and_emit_duration)
on_media_changed(self) == [self EXCEPT !.timers = @ + 1]

\* BasePlaybackManager._fetch_and_emit_duration; length = player.get_length()
fetch_and_emit_duration(self, length) ==
    IF self.player # None
    THEN [Emit(self, "media_duration_changed") EXCEPT
             !.value = IF length > 0 THEN length ELSE 0]
    ELSE self

\* a call on the VLC player or instance (player.play() with its result)
Sent(self, command) == [self EXCEPT !.backend = Append(@, command)]

\* BasePlaybackManager.load_media: instance.media_new(file_path) raises on
\* a file_path that is None, and whenever the backend refuses (raises)
load_media(self, file_path, media_type, raises) ==
    IF self.player = None
    THEN [Emit(self, "error_occurred") EXCEPT !.ret = "False"]
    ELSE IF file_path = None \/ raises
    THEN [Emit(Sent(self, "media_new"), "error_occurred") EXCEPT
             !.current_media_path = None,
             !.ret = "False"]
    ELSE [on_media_changed(Sent(Sent(self, "media_new"), "set_media")) EXCEPT
             !.player = Some(vlc_set_media(self.player[1], file_path[1])),
             !.current_media_path = file_path,
             !.ret = "True"]

\* play starting the player whether or not media is loaded
play_unguarded(self, starts) ==
    IF self.player # None
    THEN IF vlc_play_result(self.player[1], starts) = -1
         THEN [Emit(Sent(self, "play = -1"), "error_occurred") EXCEPT
                  !.ret = "False"]
         ELSE [Sent(self, "play = 0") EXCEPT
                  !.player = Some(vlc_play(self.player[1], starts)),
                  !.ret = "True"]
    ELSE [self EXCEPT !.ret = "False"]

\* BasePlaybackManager.play; starts tells whether the backend can start
play(self, starts) ==
    IF self.player # None /\ Truthy(self.current_media_path)
    THEN IF vlc_play_result(self.player[1], starts) = -1
         THEN [Emit(Sent(self, "play = -1"), "error_occurred") EXCEPT
                  !.ret = "False"]
         ELSE [Sent(self, "play = 0") EXCEPT
                  !.player = Some(vlc_play(self.player[1], starts)),
                  !.ret = "True"]
    ELSE IF self.current_media_path = NoAttribute
    THEN [self EXCEPT !.raised = "AttributeError"]
    ELSE IF ~Truthy(self.current_media_path)
    THEN [Emit(self, "error_occurred") EXCEPT !.ret = "False"]
    ELSE [self EXCEPT !.ret = "False"]

\* BasePlaybackManager.pause
pause(self) ==
    IF self.player # None
    THEN [Sent(self, "pause") EXCEPT !.player = Some(vlc_pause(self.player[1]))]
    ELSE self

\* resume without the test of the player's state
resume_unchecked_state(self) ==
    IF self.player # None /\ ~vlc_is_playing(self.player[1])
    THEN [Sent(self, "pause") EXCEPT !.player = Some(vlc_pause(self.player[1]))]
    ELSE self

\* BasePlaybackManager.resume
resume(self) ==
    IF self.player # None /\ ~vlc_is_playing(self.player[1])
    THEN IF self.player[1].state = "Paused"
         THEN [Sent(self, "pause") EXCEPT
                  !.player = Some(vlc_pause(self.player[1]))]
         ELSE self
    ELSE self

\* stop forgetting the media, as the line commented out in stop would
stop_forgets_media(self) ==
    IF self.player # None
    THEN [Sent(self, "stop") EXCEPT !.player = Some(vlc_stop(self.player[1])),
                                    !.current_media_path = None]
    ELSE self

\* BasePlaybackManager.stop
stop(self) ==
    IF self.player # None
    THEN [Sent(self, "stop") EXCEPT !.player = Some(vlc_stop(self.player[1]))]
    ELSE self

\* BasePlaybackManager.set_volume
set_volume(self, volume) ==
    IF self.player # None
    THEN [Sent(self, "audio_set_volume") EXCEPT
             !.player = Some([self.player[1] EXCEPT !.volume = volume])]
    ELSE self

\* set_position asking the player without asking whether it can seek
set_position_unchecked(self, position) ==
    IF self.player # None
    THEN [Sent(self, "set_position") EXCEPT
             !.player = Some([self.player[1] EXCEPT !.position = position])]
    ELSE self

\* BasePlaybackManager.set_position
set_position(self, position) ==
    IF self.player # None /\ vlc_is_seekable(self.player[1])
    THEN [Sent(self, "set_position") EXCEPT
             !.player = Some([self.player[1] EXCEPT !.position = position])]
    ELSE self

\* BasePlaybackManager.get_player_state
get_player_state(self) ==
    IF self.player # None THEN Some(self.player[1].state) ELSE None

\* BasePlaybackManager.get_position; ret "value": the number is in value
get_position(self) ==
    [self EXCEPT !.ret = "value",
                 !.value = IF self.player # None THEN self.player[1].position
                           ELSE 0]

\* BasePlaybackManager.get_duration; length = player.get_length()
get_duration(self, length) ==
    [self EXCEPT !.ret = "value",
                 !.value = IF self.player # None THEN length ELSE 0]

\* BasePlaybackManager.is_playing
is_playing(self) ==
    [self EXCEPT !.ret = IF self.player # None /\ vlc_is_playing(self.player[1])
                         THEN "True" ELSE "False"]

\* BasePlaybackManager.get_current_media_path
get_current_media_path(self) ==
    IF self.current_media_path = NoAttribute
    THEN [self EXCEPT !.raised = "AttributeError"]
    ELSE [self EXCEPT !.ret = IF self.current_media_path = None THEN "None"
                              ELSE self.current_media_path[1]]

\* release_player releasing the handles without forgetting them
release_player_keeps_handles(self) ==
    LET stopped == IF self.player # None
                   THEN Sent(Sent(self, "stop"), "player.release")
                   ELSE self
    IN  IF stopped.instance # None
        THEN Sent(stopped, "instance.release")
        ELSE stopped

\* BasePlaybackManager.release_player
release_player(self) ==
    LET stopped == IF self.player # None
                   THEN [Sent(Sent(self, "stop"), "player.release") EXCEPT
                            !.player = None]
                   ELSE self
    IN  IF stopped.instance # None
        THEN [Sent(stopped, "instance.release") EXCEPT !.instance = None]
        ELSE stopped

\* BasePlaybackManager._on_media_end_reached
on_media_end_reached(self) == Emit(self, "media_ended")

\* BasePlaybackManager._on_media_error
on_media_error(self) == Emit(self, "error_occurred")

\* the position handler letting every callback through to the observers
on_media_position_changed_unfiltered(self) ==
    IF self.player # None
    THEN Emit(self, "media_position_changed")
    ELSE self

\* BasePlaybackManager._on_media_position_changed
on_media_position_changed(self) ==
    IF self.player # None /\ vlc_is_playing(self.player[1])
    THEN Emit(self, "media_position_changed")
    ELSE self

\* the VLC thread outside the handler
Idle == [pc |-> "idle", path |-> None, media |-> None]

\* BasePlaybackManager.__init__ with VLC at hand (BackgroundAudioManager
\* adds _loop = False)
InitPlayback ==
    /\ instance = Some("vlc.Instance")
    /\ player = Some(NewMediaPlayer)
    /\ current_media_path = None
    /\ timers = 0
    /\ _loop = FALSE
    /\ callback = Idle
    /\ clock = -1
    /\ queued = 0
    /\ playback_update_timer = FALSE
    /\ slider_down = FALSE

\* BasePlaybackManager.__init__ without VLC ("if not vlc"): it returns
\* before current_media_path is set
InitDegraded ==
    /\ instance = None
    /\ player = None
    /\ current_media_path = NoAttribute
    /\ timers = 0
    /\ _loop = FALSE
    /\ callback = Idle
    /\ clock = -1
    /\ queued = 0
    /\ playback_update_timer = FALSE
    /\ slider_down = FALSE

----------------------------------------------------------------------------
(* The state machine *)

\* what last holds before any call; since collects what has happened to the
\* files behind the program's back after the call
NoCall ==
    [ op |-> "init", file_paths |-> <<>>, media_type |-> None,
      position |-> 0, index |-> 0, old_index |-> 0, new_index |-> 0,
      ret |-> "None", raised |-> "None", emitted |-> <<>>,
      pre_index |-> -1, pre_len |-> 0, pre_path |-> None,
      inverse |-> FALSE, pre2_index |-> -1, origin2 |-> <<>>,
      after_save |-> FALSE, since |-> {},
      backend |-> <<>>, pre_state |-> None, pre_media |-> None, value |-> 0,
      rows |-> <<>> ]

\* a call of method op in the current state
Call(op) ==
    [NoCall EXCEPT !.op = op, !.pre_index = current_index,
                   !.pre_len = Len(items), !.pre_path = current_playlist_path]

\* the manager as a call finds it
Self ==
    [ items |-> [k \in 1..Len(items) |-> [item |-> items[k], from |-> k]],
      current_index |-> current_index,
      current_playlist_path |-> current_playlist_path,
      emitted |-> <<>>, ret |-> "None", raised |-> "None" ]

\* the manager as the call leaves it
Return(self, call) ==
    /\ items' = [k \in 1..Len(self.items) |-> self.items[k].item]
    /\ origin' = [k \in 1..Len(self.items) |-> self.items[k].from]
    /\ current_index' = self.current_index
    /\ current_playlist_path' = self.current_playlist_path
    /\ last' = [call EXCEPT !.ret = self.ret, !.raised = self.raised,
                            !.emitted = self.emitted]

\* PlaylistManager.__init__, SettingsManager._init_defaults, no playlist file
Init ==
    /\ items = <<>>
    /\ current_index = -1
    /\ current_playlist_path = None
    /\ settings = [defaultImageDuration |-> DefaultImageDuration,
                   lastMediaBrowsePath |-> "", autoPlayNext |-> "true"]
    /\ disk = [p \in PlaylistFiles |-> None]
    /\ media_files = ExistingFiles
    /\ InitPlayback
    /\ origin = <<>>
    /\ last = NoCall

\* the index arguments of a call: every index of the list, one past its end,
\* -1, and for the calls that give -1 a meaning of its own, -2 as well
Indices == (-1)..Len(items)
Positions == (-2)..Len(items)

AddItem ==
    \E file_path \in MediaPaths, media_type \in MediaTypeArgs, position \in Positions :
        LET self == add_item(Self, settings, file_path, media_type, position)
        IN  /\ Len(self.items) <= MaxLen
            /\ Return(self, [Call("add_item") EXCEPT !.file_paths = <<file_path>>,
                                                     !.media_type = media_type,
                                                     !.position = position])
            /\ UNCHANGED <<settings, disk, media_files, playback>>

RemoveItem ==
    \E index \in Indices :
        /\ Return(remove_item(Self, index),
                  [Call("remove_item") EXCEPT !.index = index])
        /\ UNCHANGED <<settings, disk, media_files, playback>>

MoveItem ==
    \E old_index \in Indices, new_index \in Indices :
        LET self == move_item(Self, old_index, new_index)
            inv == /\ last.op = "move_item"
                   /\ last.emitted # <<>>
                   /\ last.old_index = new_index
                   /\ last.new_index = old_index
        IN  /\ Return(self,
                  [Call("move_item") EXCEPT
                      !.old_index = old_index, !.new_index = new_index,
                      !.inverse = inv,
                      !.pre2_index = IF inv THEN last.pre_index ELSE -1,
                      !.origin2 = IF inv
                                  THEN [k \in 1..Len(self.items) |->
                                           origin[self.items[k].from]]
                                  ELSE <<>>])
            /\ UNCHANGED <<settings, disk, media_files, playback>>

SetCurrentIndex ==
    \E index \in Positions :
        /\ Return(set_current_index(Self, index),
                  [Call("set_current_index") EXCEPT !.index = index])
        /\ UNCHANGED <<settings, disk, media_files, playback>>

SelectNext ==
    /\ Return(select_next(Self), Call("select_next"))
    /\ UNCHANGED <<settings, disk, media_files, playback>>

SelectPrevious ==
    /\ Return(select_previous(Self), Call("select_previous"))
    /\ UNCHANGED <<settings, disk, media_files, playback>>

ClearPlaylist ==
    /\ Return(clear_playlist(Self), Call("clear_playlist"))
    /\ UNCHANGED <<settings, disk, media_files, playback>>

SavePlaylist(paths) ==
    \E file_path \in paths :
        /\ Return(save_playlist(Self, file_path),
                  [Call("save_playlist") EXCEPT !.file_paths = <<file_path>>])
        /\ disk' = written_files(Self, settings, disk, file_path)
        /\ UNCHANGED <<settings, media_files, playback>>

\* the selections the "Add Media" dialog can return: up to n files, each
\* picked once, or none when the dialog is cancelled
RECURSIVE Selections(_)
Selections(n) ==
    IF n = 0 THEN {<<>>}
    ELSE LET shorter == Selections(n - 1)
         IN  shorter \cup
             {Append(sel, path) : sel \in shorter,
                                  path \in MediaPaths \ {""}}

\* no file occurs twice in the selection
Distinct(sel) == \A i, j \in DOMAIN sel : sel[i] = sel[j] => i = j

AddMediaToPlaylistDialog ==
    \E file_paths \in {sel \in Selections(MaxBatch) : Distinct(sel)} :
        LET self == add_media_to_playlist_dialog(Self, settings, file_paths)
        IN  /\ Len(self.items) <= MaxLen
            /\ Return(self, [Call("add_media_to_playlist_dialog")
                                EXCEPT !.file_paths = file_paths])
            /\ settings' = browse_path_saved(settings, file_paths)
            /\ UNCHANGED <<disk, media_files, playback>>

Next ==
    \/ AddItem
    \/ RemoveItem
    \/ MoveItem
    \/ SetCurrentIndex
    \/ SelectNext
    \/ SelectPrevious
    \/ ClearPlaylist
    \/ SavePlaylist(SinkPaths \cup UnwritablePaths)
    \/ AddMediaToPlaylistDialog

Spec == Init /\ [][Next]_vars

----------------------------------------------------------------------------
(* The playlist store and its files: saving, loading, and what happens to   *)
(* the files in between                                                     *)

MaxDeleted == 2   \* most media files that disappear in one run

\* a path at which there is no playlist file
AbsentPlaylistFiles == {"gone.json"}

\* an item object with nothing but its file_path
ItemOf(path) == JObject([file_path |-> JString(path)])

\* a playlist document with the given 'items'
PlaylistOf(item_datas) ==
    JObject([settings |-> JObject([default_image_duration |-> JNumber(3000)]),
             items |-> JArray(item_datas)])

\* the playlist files a user may put in place of show.json: written by
\* this program or by hand, complete or damaged
Documents ==
    { PlaylistOf(<<JObject([file_path    |-> JString("A.jpg"),
                            media_type   |-> JString("video"),
                            display_name |-> JString("Intro"),
                            duration     |-> JNumber(3000),
                            loop         |-> JBool(TRUE),
                            start_point  |-> JNumber(10),
                            end_point    |-> JNumber(20)]),
                   ItemOf("missing.mp4"),
                   ItemOf("B.mp4")>>),
      PlaylistOf(<<ItemOf("B.mp4"), ItemOf("A.jpg"), ItemOf("C.mp3")>>),
      PlaylistOf(<<ItemOf("")>>),
      JObject([settings |-> JObject(<<>>)]),
      JArray(<<>>),
      PlaylistOf(<<ItemOf("C.mp3"), JObject([display_name |-> JString("Outro")])>>),
      PlaylistOf(<<JString("A.jpg")>>),
      JObject([items |-> JNull]),
      JObject([version |-> JNumber(2),
               items   |-> JArray(<<JObject([file_path |-> JString("C.mp3"),
                                             note      |-> JString("cue")])>>)]),
      Malformed }

LoadPlaylist ==
    \E file_path \in PlaylistFiles \cup AbsentPlaylistFiles :
        /\ Return(load_playlist(Self, disk, file_path),
                  [Call("load_playlist") EXCEPT
                      !.file_paths = <<file_path>>,
                      !.after_save = /\ last.op = "save_playlist"
                                     /\ last.raised = "None"
                                     /\ last.file_paths = <<file_path>>
                                     /\ "file_replaced" \notin last.since])
        /\ UNCHANGED <<settings, disk, media_files, playback>>

\* the user puts another file in place of a playlist file
ReplacePlaylistFile ==
    \E file_path \in PlaylistFiles, text \in Documents :
        /\ disk[file_path] # Some(text)
        /\ disk' = [disk EXCEPT ![file_path] = Some(text)]
        /\ last' = [last EXCEPT !.since = @ \cup {"file_replaced"}]
        /\ UNCHANGED <<items, current_index, current_playlist_path, settings,
                       media_files, origin, playback>>

\* a media file is deleted, or its drive unplugged
DeleteMediaFile ==
    \E path \in media_files :
        /\ Cardinality(ExistingFiles \ media_files) < MaxDeleted
        /\ media_files' = media_files \ {path}
        /\ last' = [last EXCEPT !.since = @ \cup {"media_deleted"}]
        /\ UNCHANGED <<items, current_index, current_playlist_path, settings,
                       disk, origin, playback>>

NextPersist ==
    \/ LoadPlaylist
    \/ SavePlaylist(PlaylistFiles \cup UnwritablePaths)
    \/ ReplacePlaylistFile
    \/ DeleteMediaFile
    \/ SelectNext
    \/ RemoveItem

SpecPersist == Init /\ [][NextPersist]_vars

----------------------------------------------------------------------------
(* Adding entries of every type and removing the selected rows, with the    *)
(* settings the program may find.                                           *)

\* PlaylistManager(settings_manager) over a settings store with an image
\* duration of its own, or PlaylistManager() without a store
InitItems ==
    /\ items = <<>>
    /\ current_index = -1
    /\ current_playlist_path = None
    /\ settings \in {None, [defaultImageDuration |-> 3000,
                            lastMediaBrowsePath |-> "", autoPlayNext |-> "true"]}
    /\ disk = [p \in PlaylistFiles |-> None]
    /\ media_files = ExistingFiles
    /\ InitPlayback
    /\ origin = <<>>
    /\ last = NoCall

\* add_item at the end or at the head of the list, the media_type left
\* out, given, or given empty
AddItemTyped ==
    \E file_path \in MediaPaths,
       media_type \in {None, Some("image"), Some("audio"), Some("")},
       position \in {-1, 0} :
        LET self == add_item(Self, settings, file_path, media_type, position)
        IN  /\ Len(self.items) <= MaxRows
            /\ Return(self, [Call("add_item") EXCEPT !.file_paths = <<file_path>>,
                                                     !.media_type = media_type])
            /\ UNCHANGED <<settings, disk, media_files, playback>>

\* "Remove Selected" with the rows selected, in the order of selection
RemoveSelectedMediaFromPlaylist ==
    \E rows \in {sel \in UNION {[1..n -> 0..(Len(items) - 1)] : n \in 0..Len(items)} :
                    Distinct(sel)} :
        /\ Return(remove_selected_media_from_playlist(Self, rows),
                  [Call("remove_selected_media_from_playlist") EXCEPT
                      !.rows = rows])
        /\ UNCHANGED <<settings, disk, media_files, playback>>

NextItems ==
    \/ AddItemTyped
    \/ SetCurrentIndex
    \/ RemoveSelectedMediaFromPlaylist

SpecItems == InitItems /\ [][NextItems]_vars

----------------------------------------------------------------------------
(* Every operation of the playlist, loads of good and bad files included *)

\* the program starts next to a playlist file that loads, or to one whose
\* item is not a dict, which load_playlist gives up on after clearing
InitStore ==
    /\ items = <<>>
    /\ current_index = -1
    /\ current_playlist_path = None
    /\ settings = [defaultImageDuration |-> DefaultImageDuration,
                   lastMediaBrowsePath |-> "", autoPlayNext |-> "true"]
    /\ \E text \in {PlaylistOf(<<ItemOf("B.mp4"), ItemOf("A.jpg")>>),
                    PlaylistOf(<<JString("A.jpg")>>)} :
           disk = [p \in PlaylistFiles |-> Some(text)]
    /\ media_files = ExistingFiles
    /\ InitPlayback
    /\ origin = <<>>
    /\ last = NoCall

NextStore ==
    \/ AddItem
    \/ RemoveItem
    \/ MoveItem
    \/ SetCurrentIndex
    \/ SelectNext
    \/ SelectPrevious
    \/ ClearPlaylist
    \/ SavePlaylist(SinkPaths \cup UnwritablePaths)
    \/ LoadPlaylist

SpecStore == InitStore /\ [][NextStore]_vars

----------------------------------------------------------------------------
(* Properties of the playlist store *)

\* the origin of a list whose entries all stayed where they were
Unmoved(n) == [k \in 1..n |-> k]

\* index designates an entry of a list of length n
InRange(index, n) == 0 <= index /\ index < n

\* the call recorded in last changed neither the list nor the cursor nor
\* the remembered path, and emitted nothing
NothingChanged ==
    /\ Len(items) = last.pre_len
    /\ origin = Unmoved(last.pre_len)
    /\ current_index = last.pre_index
    /\ current_playlist_path = last.pre_path
    /\ last.emitted = <<>>

\* C1 as stated: after add_item, remove_item and move_item the cursor is -1
\* with the list empty, or an index of the list; never -1 on a non-empty list.
C1_CursorUnsetOnlyWhenEmpty ==
    \/ current_index = -1 /\ items = <<>>
    \/ InRange(current_index, Len(items))

\* C1 as amended: after every call the cursor is -1 or an index of the list;
\* -1 also stands on a non-empty list, since add_item selects nothing.
C1_CursorUnsetOrInRange ==
    current_index = -1 \/ InRange(current_index, Len(items))

\* C1: the selected entry, last of several, has just been removed
C1_Witness ==
    /\ last.op = "remove_item"
    /\ last.pre_index = last.pre_len - 1
    /\ last.index = last.pre_index
    /\ current_index = Len(items) - 1
    /\ items # <<>>

\* C2: an insertion by add_item at position p leaves the cursor alone when p
\* is past it (or the entry is appended) and moves it up by one when
\* p <= current_index, so that it designates the same entry as before.
C2_AddKeepsCursorOnItsEntry ==
    (last.op = "add_item" /\ Len(items) = last.pre_len + 1 /\ last.position >= -1) =>
        LET appended == last.position = -1 \/ last.position >= last.pre_len
        IN  /\ current_index =
                  IF ~appended /\ last.position <= last.pre_index
                  THEN last.pre_index + 1
                  ELSE last.pre_index
            /\ last.pre_index >= 0 => origin[current_index + 1] = last.pre_index + 1

\* C3: remove_item(index), index in range: the cursor goes down by one when
\* it was on index and index was the last entry (it is then the new last
\* index, or -1 on the emptied list), else down by one when it was past
\* index, else it stays.
C3_RemoveCursorRule ==
    (last.op = "remove_item" /\ InRange(last.index, last.pre_len)) =>
        LET onLast == last.pre_index = last.index /\ last.index = last.pre_len - 1
        IN  /\ Len(items) = last.pre_len - 1
            /\ current_index =
                  IF onLast THEN last.pre_index - 1
                  ELSE IF last.pre_index > last.index THEN last.pre_index - 1
                  ELSE last.pre_index
            /\ onLast => current_index = Len(items) - 1

\* C3: the selected last entry of a list of several was removed
C3_Witness ==
    /\ last.op = "remove_item"
    /\ last.pre_len >= 2
    /\ last.index = last.pre_len - 1
    /\ last.pre_index = last.index
    /\ current_index = last.pre_len - 2

\* C4: move_item(old, new), both in range, puts the entry of old at new,
\* keeps the order of the others, and remaps the cursor: old to new; down by
\* one within (old, new]; up by one within [new, old); else unchanged.
C4_MoveRule ==
    [][ ( /\ last'.op = "move_item"
          /\ InRange(last'.old_index, Len(items))
          /\ InRange(last'.new_index, Len(items)) ) =>
        LET old == last'.old_index
            new == last'.new_index
            ci == current_index
        IN  /\ Len(items') = Len(items)
            /\ items'[new + 1] = items[old + 1]
            /\ origin'[new + 1] = old + 1
            /\ PyDel(items', new) = PyDel(items, old)
            /\ PyDel(origin', new) = PyDel(Unmoved(Len(items)), old)
            /\ current_index' =
                  IF ci = old THEN new
                  ELSE IF old < ci /\ ci <= new THEN ci - 1
                  ELSE IF new <= ci /\ ci < old THEN ci + 1
                  ELSE ci
            /\ current_playlist_path' = current_playlist_path
      ]_vars

\* C4: an entry moved up past the selected one
C4_Witness ==
    /\ last.op = "move_item"
    /\ last.old_index < last.pre_index
    /\ last.pre_index < last.new_index
    /\ InRange(last.old_index, last.pre_len)
    /\ InRange(last.new_index, last.pre_len)
    /\ current_index = last.pre_index - 1

\* C5: move_item(i, j) followed by move_item(j, i), i and j in range, gives
\* back the order and the cursor there were before the first of the two.
C5_MoveThenInverse ==
    last.inverse =>
        /\ Len(items) = last.pre_len
        /\ last.origin2 = Unmoved(Len(items))
        /\ current_index = last.pre2_index

\* C5: the second move of such a pair is done, and the first one had moved
\* the cursor
C5_Witness ==
    /\ last.inverse
    /\ last.old_index # last.new_index
    /\ last.pre_index # last.pre2_index
    /\ last.pre_len = MaxLen

\* C6: remove_item with an index out of range, and move_item with either
\* index out of range, change neither the list nor the cursor nor the
\* remembered path, and emit no playlist_changed.
C6_OutOfRangeIsNoOp ==
    [][ ( \/ /\ last'.op = "remove_item"
             /\ ~InRange(last'.index, Len(items))
          \/ /\ last'.op = "move_item"
             /\ \/ ~InRange(last'.old_index, Len(items))
                \/ ~InRange(last'.new_index, Len(items)) ) =>
        /\ UNCHANGED <<items, current_index, current_playlist_path>>
        /\ origin' = Unmoved(Len(items))
        /\ last'.emitted = <<>>
      ]_vars

\* C6: a move from a valid index to one past the end, on a saved playlist
\* with a selection
C6_Witness ==
    /\ last.op = "move_item"
    /\ InRange(last.old_index, last.pre_len)
    /\ last.new_index = last.pre_len
    /\ last.pre_index >= 0
    /\ last.pre_path # None
    /\ NothingChanged

IsExistingFile(path) == Exists(path)

\* C7: add_item with a path that names no existing file inserts nothing and
\* raises nothing; a batch of the "Add Media" dialog still appends its
\* existing files, in the order picked.
C7_MissingFileSkipped ==
    /\ (last.op = "add_item" /\ ~Exists(last.file_paths[1])) =>
          NothingChanged /\ last.raised = "None"
    /\ last.op = "add_media_to_playlist_dialog" =>
          LET added == SelectSeq(last.file_paths, IsExistingFile)
          IN  /\ Len(items) = last.pre_len + Len(added)
              /\ origin = Unmoved(last.pre_len) \o [k \in 1..Len(added) |-> 0]
              /\ \A k \in 1..Len(added) :
                     items[last.pre_len + k].file_path = added[k]
              /\ current_index = last.pre_index
              /\ last.raised = "None"

\* C7: a batch whose first path is missing and whose second was appended
C7_Witness ==
    /\ last.op = "add_media_to_playlist_dialog"
    /\ Len(last.file_paths) >= 2
    /\ ~Exists(last.file_paths[1])
    /\ Exists(last.file_paths[2])
    /\ last.pre_len >= 1
    /\ items[Len(items)].file_path = last.file_paths[2]

\* the call recorded in last was a cursor move by step (+1 or -1)
CursorStep(step) ==
    LET target == last.pre_index + step
    IN  /\ Len(items) = last.pre_len
        /\ origin = Unmoved(last.pre_len)
        /\ current_playlist_path = last.pre_path
        /\ IF InRange(target, last.pre_len)
           THEN current_index = target /\ last.ret = "True"
           ELSE /\ current_index = last.pre_index
                /\ last.ret = "False"
                /\ last.emitted = <<>>

\* C8: select_next and select_previous move the cursor by one and return
\* True when the target is an index of the list; otherwise (empty list,
\* select_next on the last entry, select_previous at 0) they return False
\* and change nothing.
C8_SelectWithinBounds ==
    /\ last.op = "select_next" => CursorStep(1)
    /\ last.op = "select_previous" => CursorStep(-1)

\* C8: select_next on a single-entry playlist whose entry is selected
C8_Witness ==
    /\ last.op = "select_next"
    /\ last.pre_len = 1
    /\ last.pre_index = 0
    /\ last.ret = "False"
    /\ current_index = 0

\* C9: set_current_index(i) returns True and sets the cursor to i exactly
\* when i is an index of the list, or i = -1 and the list is empty; else it
\* returns False and leaves the cursor.
C9_SetCurrentIndex ==
    last.op = "set_current_index" =>
        /\ Len(items) = last.pre_len
        /\ origin = Unmoved(last.pre_len)
        /\ IF \/ InRange(last.index, last.pre_len)
              \/ last.index = -1 /\ last.pre_len = 0
           THEN current_index = last.index /\ last.ret = "True"
           ELSE current_index = last.pre_index /\ last.ret = "False"

\* C9: -1 refused on a non-empty playlist with a selection
C9_Witness ==
    /\ last.op = "set_current_index"
    /\ last.index = -1
    /\ last.pre_len >= 1
    /\ last.pre_index >= 0
    /\ last.ret = "False"
    /\ current_index = last.pre_index

\* C10: clear_playlist leaves an empty list, the cursor at -1 and no
\* remembered path.
C10_ClearResets ==
    last.op = "clear_playlist" =>
        /\ items = <<>>
        /\ current_index = -1
        /\ current_playlist_path = None

\* C10: a saved playlist with entries and a selection was cleared
C10_Witness ==
    /\ last.op = "clear_playlist"
    /\ last.pre_len >= 2
    /\ last.pre_index >= 1
    /\ last.pre_path # None
    /\ items = <<>>

----------------------------------------------------------------------------
(* Editing a playlist that was loaded from a file *)

\* a playlist file naming the three media files
ThreeItems ==
    PlaylistOf(<<ItemOf("A.jpg"), ItemOf("B.mp4"), ItemOf("C.mp3")>>)

\* the program starts next to a playlist file
InitEdit ==
    /\ items = <<>>
    /\ current_index = -1
    /\ current_playlist_path = None
    /\ settings = [defaultImageDuration |-> DefaultImageDuration,
                   lastMediaBrowsePath |-> "", autoPlayNext |-> "true"]
    /\ disk = [p \in PlaylistFiles |-> Some(ThreeItems)]
    /\ media_files = ExistingFiles
    /\ InitPlayback
    /\ origin = <<>>
    /\ last = NoCall

NextEdit ==
    \/ LoadPlaylist
    \/ SetCurrentIndex
    \/ SelectNext
    \/ SelectPrevious
    \/ RemoveItem
    \/ MoveItem

SpecEdit == InitEdit /\ [][NextEdit]_vars

----------------------------------------------------------------------------
(* The playback manager and its player *)

\* the file_path arguments load_media is called with
MediaRefs == {None} \cup {Some(path) : path \in MediaPaths}

\* the arguments of set_volume and set_position
Volumes == {50, 100}
SeekPositions == {0, 50}

\* the playlist store and the files, which the playback manager leaves alone
store == <<items, current_index, current_playlist_path, settings, disk,
           media_files, origin>>

\* a call of method op of the playback manager in the current state
PlaybackCall(op) ==
    [Call(op) EXCEPT !.pre_state = get_player_state([player |-> player]),
                     !.pre_media = current_media_path]

\* the playback manager as a call finds it
PlaybackSelf ==
    [ instance |-> instance, player |-> player,
      current_media_path |-> current_media_path, timers |-> timers,
      emitted |-> <<>>, ret |-> "None", raised |-> "None", backend |-> <<>>,
      value |-> 0 ]

\* the playback manager as the call leaves it; nothing runs in a process
\* that has crashed
PlaybackReturn(self, call) ==
    /\ callback.pc # "crashed"
    /\ instance' = self.instance
    /\ player' = self.player
    /\ current_media_path' = self.current_media_path
    /\ timers' = self.timers
    /\ last' = [call EXCEPT !.ret = self.ret, !.raised = self.raised,
                            !.emitted = self.emitted, !.backend = self.backend,
                            !.value = self.value]

LoadMedia ==
    \E file_path \in MediaRefs, raises \in BOOLEAN :
        LET self == load_media(PlaybackSelf, file_path, "unknown", raises)
        IN  /\ self.timers <= MaxTimers
            /\ PlaybackReturn(self, [PlaybackCall("load_media") EXCEPT
                                        !.file_paths = file_path])
            /\ UNCHANGED <<store, background>>

Play ==
    \E starts \in BOOLEAN :
        /\ PlaybackReturn(play(PlaybackSelf, starts), PlaybackCall("play"))
        /\ UNCHANGED <<store, background>>

Pause ==
    /\ PlaybackReturn(pause(PlaybackSelf), PlaybackCall("pause"))
    /\ UNCHANGED <<store, background>>

Resume ==
    /\ PlaybackReturn(resume(PlaybackSelf), PlaybackCall("resume"))
    /\ UNCHANGED <<store, background>>

Stop ==
    /\ PlaybackReturn(stop(PlaybackSelf), PlaybackCall("stop"))
    /\ UNCHANGED <<store, background>>

SetVolume ==
    \E volume \in Volumes :
        /\ PlaybackReturn(set_volume(PlaybackSelf, volume),
                          [PlaybackCall("set_volume") EXCEPT !.position = volume])
        /\ UNCHANGED <<store, background>>

SetPosition ==
    \E position \in SeekPositions :
        /\ PlaybackReturn(set_position(PlaybackSelf, position),
                          [PlaybackCall("set_position") EXCEPT
                              !.position = position])
        /\ UNCHANGED <<store, background>>

ReleasePlayer ==
    /\ PlaybackReturn(release_player(PlaybackSelf),
                      PlaybackCall("release_player"))
    /\ UNCHANGED <<store, background>>

\* the player has opened its media and plays it; no handler is attached
MediaPlayerPlaying ==
    /\ callback.pc # "crashed"
    /\ player # None
    /\ player[1].state = "Opening"
    /\ Exists(player[1].media[1])
    /\ player' = Some([player[1] EXCEPT !.state = "Playing"])
    /\ last' = [last EXCEPT !.since = @ \cup {"playing"}]
    /\ UNCHANGED <<store, instance, current_media_path, timers, background>>

\* the media is played to its end: MediaPlayerEndReached
MediaPlayerEndReached ==
    /\ player # None
    /\ player[1].state = "Playing"
    /\ PlaybackReturn(on_media_end_reached(
                          [PlaybackSelf EXCEPT !.player =
                              Some([player[1] EXCEPT !.state = "Ended"])]),
                      PlaybackCall("_on_media_end_reached"))
    /\ UNCHANGED <<store, background>>

\* the player cannot open or decode its media: MediaPlayerEncounteredError
MediaPlayerEncounteredError ==
    /\ player # None
    /\ player[1].state \in {"Opening", "Playing"}
    /\ PlaybackReturn(on_media_error(
                          [PlaybackSelf EXCEPT !.player =
                              Some([player[1] EXCEPT !.state = "Error"])]),
                      PlaybackCall("_on_media_error"))
    /\ UNCHANGED <<store, background>>

\* a position callback of the backend arrives: MediaPlayerPositionChanged.
\* The backend sends them while it plays; one can arrive late, when the
\* player has been paused, stopped or released, or has reached its end.
MediaPlayerPositionChanged ==
    /\ PlaybackReturn(on_media_position_changed(PlaybackSelf),
                      PlaybackCall("_on_media_position_changed"))
    /\ UNCHANGED <<store, background>>

\* 100 ms after a set_media one of the waiting timers fires
FetchAndEmitDuration ==
    \E length \in Lengths :
        /\ timers > 0
        /\ PlaybackReturn(fetch_and_emit_duration(
                              [PlaybackSelf EXCEPT !.timers = @ - 1], length),
                          PlaybackCall("_fetch_and_emit_duration"))
        /\ UNCHANGED <<store, background>>

NextPlayback ==
    \/ LoadMedia
    \/ Play
    \/ Pause
    \/ Resume
    \/ Stop
    \/ SetVolume
    \/ SetPosition
    \/ ReleasePlayer
    \/ MediaPlayerPlaying
    \/ MediaPlayerEndReached
    \/ MediaPlayerEncounteredError
    \/ MediaPlayerPositionChanged
    \/ FetchAndEmitDuration

SpecPlayback == Init /\ [][NextPlayback]_vars

----------------------------------------------------------------------------
(* The playback manager as constructed with or without VLC, its commands   *)
(* and its queries                                                          *)

\* the program starts with the vlc module imported or not
InitBackend ==
    /\ items = <<>>
    /\ current_index = -1
    /\ current_playlist_path = None
    /\ settings = [defaultImageDuration |-> DefaultImageDuration,
                   lastMediaBrowsePath |-> "", autoPlayNext |-> "true"]
    /\ disk = [p \in PlaylistFiles |-> None]
    /\ media_files = ExistingFiles
    /\ InitPlayback \/ InitDegraded
    /\ origin = <<>>
    /\ last = NoCall

GetPosition ==
    /\ PlaybackReturn(get_position(PlaybackSelf), PlaybackCall("get_position"))
    /\ UNCHANGED <<store, background>>

GetDuration ==
    \E length \in Lengths :
        /\ PlaybackReturn(get_duration(PlaybackSelf, length),
                          PlaybackCall("get_duration"))
        /\ UNCHANGED <<store, background>>

IsPlaying ==
    /\ PlaybackReturn(is_playing(PlaybackSelf), PlaybackCall("is_playing"))
    /\ UNCHANGED <<store, background>>

GetCurrentMediaPath ==
    /\ PlaybackReturn(get_current_media_path(PlaybackSelf),
                      PlaybackCall("get_current_media_path"))
    /\ UNCHANGED <<store, background>>

NextBackend ==
    \/ NextPlayback
    \/ GetPosition
    \/ GetDuration
    \/ IsPlaying
    \/ GetCurrentMediaPath

SpecBackend == InitBackend /\ [][NextBackend]_vars

----------------------------------------------------------------------------
(* The main assembly: MainWindow with its PlaylistManager and its           *)
(* PlaybackController.  media_ended is emitted on the VLC thread and        *)
(* MainWindow lives on the GUI thread, so the signal is queued and the slot *)
(* _handle_main_media_ended runs later, on the GUI thread.  main is a       *)
(* record: playlist (the PlaylistManager), controller (the                  *)
(* PlaybackController) and raised.  PlaybackController.current_media_type,  *)
(* which nothing reads, is left out.                                        *)

\* the media_ended signals that can wait at one time
MaxQueued == 1

\* PlaybackController.play_media
play_media(self, file_path, media_type, raises, starts) ==
    LET loaded == load_media(self, file_path, media_type, raises)
    IN  IF loaded.ret = "True"
        THEN play(loaded, starts)
        ELSE [loaded EXCEPT !.ret = "False"]

\* MainWindow._play_current_main_playlist_item: a MediaItem has the
\* attributes MediaItem.__init__ sets; reading another raises AttributeError
play_current_main_playlist_item(main, raises, starts) ==
    IF main.controller.player = None
    THEN main
    ELSE LET current_item == get_current_item(main.playlist)
         IN  IF current_item # None
             THEN IF "path" \in DOMAIN current_item[1]
                  THEN LET played == play_media(main.controller,
                                                Some(current_item[1].path),
                                                current_item[1].media_type,
                                                raises, starts)
                       IN  [main EXCEPT
                               !.controller = played,
                               !.playback_update_timer =
                                   IF played.ret = "True" THEN TRUE ELSE @]
                  ELSE [main EXCEPT !.raised = "AttributeError"]
             ELSE [main EXCEPT !.controller = stop(@),
                               !.playback_update_timer = FALSE]

\* MainWindow._play_next_item
play_next_item(main, raises, starts) ==
    LET selected == [main EXCEPT !.playlist = select_next(@)]
    IN  IF selected.playlist.ret = "True"
        THEN play_current_main_playlist_item(selected, raises, starts)
        ELSE selected

\* MainWindow._handle_main_media_ended
handle_main_media_ended(main, settings_store, raises, starts) ==
    IF auto_play_next(settings_store)
    THEN play_next_item(main, raises, starts)
    ELSE [main EXCEPT !.playback_update_timer = FALSE]

\* MainWindow._toggle_main_play_pause
toggle_main_play_pause(main, raises, starts) ==
    IF main.controller.player = None
    THEN main
    ELSE IF is_playing(main.controller).ret = "True"
    THEN [main EXCEPT !.controller = pause(@),
                      !.playback_update_timer = FALSE]
    ELSE IF \/ ~Truthy(main.controller.current_media_path)
            \/ main.controller.player[1].state \in
                   {"Ended", "Stopped", "Error", "NothingSpecial"}
    THEN play_current_main_playlist_item(main, raises, starts)
    ELSE [main EXCEPT !.controller = resume(@),
                      !.playback_update_timer = TRUE]

\* MainWindow._resume_timer_after_seek: the timer is started and
\* _update_main_playback_progress asks the controller for the position
resume_timer_after_seek(main) ==
    IF main.controller.player # None /\ is_playing(main.controller).ret = "True"
    THEN [main EXCEPT !.playback_update_timer = TRUE,
                      !.controller = get_position(@)]
    ELSE main

\* the main window as a handler finds it
Main ==
    [ playlist |-> Self, controller |-> PlaybackSelf, raised |-> "None",
      playback_update_timer |-> playback_update_timer ]

\* the main window as the handler leaves it
MainReturn(main, call) ==
    /\ items' = [k \in 1..Len(main.playlist.items) |-> main.playlist.items[k].item]
    /\ origin' = [k \in 1..Len(main.playlist.items) |-> main.playlist.items[k].from]
    /\ current_index' = main.playlist.current_index
    /\ current_playlist_path' = main.playlist.current_playlist_path
    /\ instance' = main.controller.instance
    /\ player' = main.controller.player
    /\ current_media_path' = main.controller.current_media_path
    /\ timers' = main.controller.timers
    /\ playback_update_timer' = main.playback_update_timer
    /\ last' = [call EXCEPT !.raised = main.raised,
                            !.ret = main.controller.ret,
                            !.emitted = main.playlist.emitted \o
                                        main.controller.emitted,
                            !.backend = main.controller.backend]

\* the program starts next to a playlist file, with autoPlayNext on or off
InitMain ==
    /\ items = <<>>
    /\ current_index = -1
    /\ current_playlist_path = None
    /\ \E flag \in {"true", "false"} :
           settings = [defaultImageDuration |-> DefaultImageDuration,
                       lastMediaBrowsePath |-> "", autoPlayNext |-> flag]
    /\ disk = [p \in PlaylistFiles |-> Some(ThreeItems)]
    /\ media_files = ExistingFiles
    /\ InitPlayback
    /\ origin = <<>>
    /\ last = NoCall

\* PlaybackController.play_media called with a path and its media type
PlayMedia ==
    \E file_path \in MediaRefs, raises \in BOOLEAN, starts \in BOOLEAN :
        LET self == play_media(PlaybackSelf, file_path, "unknown", raises, starts)
        IN  /\ self.timers <= MaxTimers
            /\ PlaybackReturn(self, [PlaybackCall("play_media") EXCEPT
                                        !.file_paths = file_path])
            /\ UNCHANGED <<store, background>>

\* the media is played to its end: BasePlaybackManager._on_media_end_reached
\* emits media_ended, which is queued for MainWindow
MediaPlayerEndReachedMain ==
    /\ player # None
    /\ player[1].state = "Playing"
    /\ queued < MaxQueued
    /\ queued' = queued + 1
    /\ PlaybackReturn(on_media_end_reached(
                          [PlaybackSelf EXCEPT !.player =
                              Some([player[1] EXCEPT !.state = "Ended"])]),
                      PlaybackCall("_on_media_end_reached"))
    /\ UNCHANGED <<store, _loop, callback, clock, playback_update_timer,
                   slider_down>>

\* the queued media_ended reaches its slot
HandleMainMediaEnded ==
    \E raises \in BOOLEAN, starts \in BOOLEAN :
        LET main == handle_main_media_ended(Main, settings, raises, starts)
        IN  /\ queued > 0
            /\ queued' = queued - 1
            /\ main.controller.timers <= MaxTimers
            /\ MainReturn(main, PlaybackCall("_handle_main_media_ended"))
            /\ UNCHANGED <<settings, disk, media_files, _loop, callback, clock,
                           slider_down>>

\* the "next" button
PlayNextItem ==
    \E raises \in BOOLEAN, starts \in BOOLEAN :
        LET main == play_next_item(Main, raises, starts)
        IN  /\ main.controller.timers <= MaxTimers
            /\ MainReturn(main, PlaybackCall("_play_next_item"))
            /\ UNCHANGED <<settings, disk, media_files, _loop, callback, clock,
                           queued, slider_down>>

\* the play/pause button
ToggleMainPlayPause ==
    \E raises \in BOOLEAN, starts \in BOOLEAN :
        LET main == toggle_main_play_pause(Main, raises, starts)
        IN  /\ main.controller.timers <= MaxTimers
            /\ MainReturn(main, PlaybackCall("_toggle_main_play_pause"))
            /\ UNCHANGED <<settings, disk, media_files, _loop, callback, clock,
                           queued, slider_down>>

\* the seek slider is pressed: MainWindow._pause_timer_on_seek
PauseTimerOnSeek ==
    /\ ~slider_down
    /\ slider_down' = TRUE
    /\ MainReturn([Main EXCEPT !.playback_update_timer = FALSE],
                  PlaybackCall("_pause_timer_on_seek"))
    /\ UNCHANGED <<settings, disk, media_files, _loop, callback, clock, queued>>

\* the seek slider is released: MainWindow._resume_timer_after_seek
ResumeTimerAfterSeek ==
    /\ slider_down
    /\ slider_down' = FALSE
    /\ MainReturn(resume_timer_after_seek(Main),
                  PlaybackCall("_resume_timer_after_seek"))
    /\ UNCHANGED <<settings, disk, media_files, _loop, callback, clock, queued>>

NextMain ==
    \/ LoadPlaylist
    \/ SetCurrentIndex
    \/ PlayMedia
    \/ Stop
    \/ FetchAndEmitDuration
    \/ MediaPlayerPlaying
    \/ MediaPlayerEndReachedMain
    \/ HandleMainMediaEnded
    \/ PlayNextItem

SpecMain == InitMain /\ [][NextMain]_vars

\* the main window's buttons and seek slider over a controller that plays
NextSeek ==
    \/ LoadPlaylist
    \/ PlayMedia
    \/ MediaPlayerPlaying
    \/ MediaPlayerEndReachedMain
    \/ HandleMainMediaEnded
    \/ ToggleMainPlayPause
    \/ PauseTimerOnSeek
    \/ ResumeTimerAfterSeek

SpecSeek == InitMain /\ [][NextSeek]_vars

----------------------------------------------------------------------------
(* BackgroundAudioManager.  VLC calls the handlers attached in __init__ on  *)
(* a thread of its own, while the commands run on the GUI thread.  The      *)
(* handler _on_media_end_reached is therefore a sequence of steps, its      *)
(* place kept in callback.pc, and commands can run between its steps:       *)
(*   "idle"       outside the handler                                       *)
(*   "media_new"  the test passed; next: self.player, and                   *)
(*                self.instance.media_new(self.current_media_path)          *)
(*   "set_media"  next: set_media(media) on the player found                *)
(*   "play"       next: self.play()                                         *)
(*   "crashed"    the process has died in a call on a released handle       *)
(* callback.path is the current_media_path the test found, callback.media   *)
(* the path of the media object made by media_new.                          *)

\* the clock stops counting at MaxClock
MaxClock == 1

\* the background manager as a call finds it
BackgroundSelf == [_loop |-> _loop, callback |-> callback] @@ PlaybackSelf

\* the background manager as the call leaves it
BackgroundReturn(self, call) ==
    /\ PlaybackReturn(self, call)
    /\ _loop' = self._loop
    /\ callback' = self.callback

\* BackgroundAudioManager.set_loop
set_loop(self, loop_on) == [self EXCEPT !._loop = loop_on]

\* BackgroundAudioManager._on_media_end_reached: the test
\* "if self._loop and self.current_media_path", and its else branch
loop_test(self) ==
    IF self._loop /\ Truthy(self.current_media_path)
    THEN [self EXCEPT !.callback = [pc |-> "media_new",
                                    path |-> self.current_media_path,
                                    media |-> None]]
    ELSE on_media_end_reached(self)

\* BackgroundAudioManager._on_media_end_reached: self.player.set_media is
\* looked up, then self.instance.media_new(self.current_media_path) is
\* called; it raises on None and whenever the backend refuses (raises)
loop_media_new(self, raises) ==
    IF self.player = None \/ self.instance = None
    THEN [self EXCEPT !.raised = "AttributeError", !.callback = Idle]
    ELSE IF self.current_media_path = None \/ raises
    THEN [Sent(self, "media_new") EXCEPT !.raised = "Exception",
                                         !.callback = Idle]
    ELSE [Sent(self, "media_new") EXCEPT
             !.callback.pc = "set_media",
             !.callback.media = self.current_media_path]

\* BackgroundAudioManager._on_media_end_reached: set_media(media) is called
\* on the player that was found.  When release_player has released it in
\* between, the call uses a handle that is no more: it may return or crash.
loop_set_media(self, crashes) ==
    IF self.player = None
    THEN [Sent(self, "set_media") EXCEPT
             !.callback.pc = IF crashes THEN "crashed" ELSE "play"]
    ELSE [on_media_changed(Sent(self, "set_media")) EXCEPT
             !.player = Some(vlc_set_media(self.player[1],
                                           self.callback.media[1])),
             !.callback.pc = "play"]

\* BackgroundAudioManager._on_media_end_reached: self.play()
loop_play(self, starts) == [play(self, starts) EXCEPT !.callback = Idle]

SetLoop ==
    \E loop_on \in BOOLEAN :
        /\ BackgroundReturn(set_loop(BackgroundSelf, loop_on),
                            PlaybackCall("set_loop"))
        /\ UNCHANGED <<store, clock, queued, playback_update_timer, slider_down>>

\* the media is played to its end: VLC calls the handler on its thread
MediaPlayerEndReachedBackground ==
    /\ callback.pc = "idle"
    /\ player # None
    /\ player[1].state = "Playing"
    /\ BackgroundReturn(loop_test([BackgroundSelf EXCEPT !.player =
                                      Some([player[1] EXCEPT !.state = "Ended"])]),
                        PlaybackCall("_on_media_end_reached"))
    /\ UNCHANGED <<store, clock, queued, playback_update_timer, slider_down>>

LoopMediaNew ==
    \E raises \in BOOLEAN :
        /\ callback.pc = "media_new"
        /\ BackgroundReturn(loop_media_new(BackgroundSelf, raises),
                            PlaybackCall("_on_media_end_reached"))
        /\ UNCHANGED <<store, clock, queued, playback_update_timer, slider_down>>

\* a reload sets the clock to 0
LoopSetMedia ==
    \E crashes \in BOOLEAN :
        LET self == loop_set_media(BackgroundSelf, crashes)
        IN  /\ callback.pc = "set_media"
            /\ self.timers <= MaxTimers
            /\ BackgroundReturn(self, PlaybackCall("_on_media_end_reached"))
            /\ clock' = IF player # None THEN 0 ELSE clock
            /\ UNCHANGED <<store, queued, playback_update_timer, slider_down>>

LoopPlay ==
    \E starts \in BOOLEAN :
        /\ callback.pc = "play"
        /\ BackgroundReturn(loop_play(BackgroundSelf, starts),
                            PlaybackCall("_on_media_end_reached"))
        /\ UNCHANGED <<store, clock, queued, playback_update_timer, slider_down>>

\* time passes
Tick ==
    /\ callback.pc # "crashed"
    /\ clock \in 0..(MaxClock - 1)
    /\ clock' = clock + 1
    /\ last' = [last EXCEPT !.since = @ \cup {"tick"}]
    /\ UNCHANGED <<store, instance, player, current_media_path, timers,
                   _loop, callback, queued, playback_update_timer,
                   slider_down>>

NextBackground ==
    \/ LoadMedia
    \/ Play
    \/ Pause
    \/ Stop
    \/ ReleasePlayer
    \/ SetLoop
    \/ FetchAndEmitDuration
    \/ MediaPlayerPlaying
    \/ MediaPlayerEndReachedBackground
    \/ LoopMediaNew
    \/ LoopSetMedia
    \/ LoopPlay
    \/ Tick

SpecBackground == Init /\ [][NextBackground]_vars

----------------------------------------------------------------------------
(* Properties of saving and loading *)

\* the 'items' array of the playlist file the last call was made with
FileItems ==
    LET members == json_value(disk[last.file_paths[1]][1])
    IN  IF "items" \in DOMAIN members THEN json_value(members.items) ELSE <<>>

\* the file an element of the 'items' array names
FilePathOf(data) == json_value(json_value(data).file_path)

\* the file an element of the 'items' array names exists
NamesExistingFile(data) == FilePathOf(data) \in media_files

\* the file of a playlist entry exists
StillExists(item) == item.file_path \in media_files

\* C11: a successful load_playlist(path) replaces the list by new entries
\* for the file's items whose files exist, in file order, puts the cursor
\* on 0 when there are any and on -1 otherwise, and remembers path.  (The
\* files are looked at as the call left them: last.since is empty.)
C11_LoadReplaces ==
    (last.op = "load_playlist" /\ last.raised = "None" /\ last.since = {}) =>
        LET kept == SelectSeq(FileItems, NamesExistingFile)
        IN  /\ Len(items) = Len(kept)
            /\ \A k \in 1..Len(kept) : items[k].file_path = FilePathOf(kept[k])
            /\ origin = [k \in 1..Len(items) |-> 0]
            /\ current_index = IF items # <<>> THEN 0 ELSE -1
            /\ current_playlist_path = Some(last.file_paths[1])

\* C11: a file of three items, one of them missing, was loaded over a list
\* of several entries with the cursor past the first
C11_Witness ==
    /\ last.op = "load_playlist"
    /\ last.raised = "None"
    /\ last.since = {}
    /\ last.pre_len >= 2
    /\ last.pre_index >= 1
    /\ Len(FileItems) = 3
    /\ Len(items) = 2
    /\ current_index = 0

\* C12: a load_playlist that fails raises its error to the caller and
\* leaves the list, the cursor and the remembered path as they were.
C12_FailedLoadChangesNothing ==
    (last.op = "load_playlist" /\ last.raised # "None") =>
        /\ Len(items) = last.pre_len
        /\ origin = Unmoved(last.pre_len)
        /\ current_index = last.pre_index
        /\ current_playlist_path = last.pre_path

\* C13: save_playlist(p) followed by load_playlist(p), whatever media files
\* disappear in between, succeeds and yields the entries of the saved list
\* whose files still exist, in the same order and with all seven fields
\* as they were.
C13_SaveThenLoad ==
    [][ ( /\ last.op = "save_playlist"
          /\ last.raised = "None"
          /\ "file_replaced" \notin last.since
          /\ last'.op = "load_playlist"
          /\ last'.file_paths = last.file_paths ) =>
        /\ last'.raised = "None"
        /\ items' = SelectSeq(items, StillExists)
      ]_vars

\* C13: a list holding an entry with fields of its own was saved and loaded
\* again after one of its files had disappeared
C13_Witness ==
    /\ last.op = "load_playlist"
    /\ last.after_save
    /\ last.pre_len = 2
    /\ Len(items) = 1
    /\ items[1].display_name = "Intro"
    /\ items[1].media_type = "video"
    /\ items[1].loop

----------------------------------------------------------------------------
(* The worked example of the playlist rules *)

\* the files the entries of the list name, in order
Paths == [k \in 1..Len(items) |-> items[k].file_path]

\* C14: on [A.jpg, B.mp4, C.mp3] with the cursor on 1, remove_item(0) gives
\* [B.mp4, C.mp3] with the cursor on 0; on that, move_item(0, 1) gives
\* [C.mp3, B.mp4] with the cursor on 1.
C14_RemoveThenMove ==
    [][ /\ ( /\ Paths = <<"A.jpg", "B.mp4", "C.mp3">>
             /\ current_index = 1
             /\ last'.op = "remove_item"
             /\ last'.index = 0 ) =>
                /\ Paths' = <<"B.mp4", "C.mp3">>
                /\ current_index' = 0
        /\ ( /\ Paths = <<"B.mp4", "C.mp3">>
             /\ current_index = 0
             /\ last'.op = "move_item"
             /\ last'.old_index = 0
             /\ last'.new_index = 1 ) =>
                /\ Paths' = <<"C.mp3", "B.mp4">>
                /\ current_index' = 1
      ]_vars

\* C14: the move of the example was made, on the two entries and the
\* cursor the example's removal leaves
C14_Witness ==
    /\ last.op = "move_item"
    /\ last.old_index = 0
    /\ last.new_index = 1
    /\ last.pre_len = 2
    /\ last.pre_index = 0
    /\ Paths = <<"C.mp3", "B.mp4">>
    /\ current_index = 1

----------------------------------------------------------------------------
(* Properties of the playback manager *)

\* what get_state() reports, "Released" once there is no player
PlayerState == IF player = None THEN "Released" ELSE player[1].state

\* the step is a call of method op (or the handler op run for an event)
Called(op) == last'.op = op /\ last'.since = {}

\* C15: pause() on a paused player leaves it paused and does not use the
\* backend's toggle again, so that pause() calls alone never make it play.
C15_PauseStaysPaused ==
    [][ (Called("pause") /\ PlayerState = "Paused") =>
            /\ PlayerState' = "Paused"
            /\ last'.backend = <<>>
      ]_vars

\* C16: play() with no media loaded returns False, emits error_occurred and
\* sends nothing to the backend; play() that the backend refuses (its play
\* returns -1) returns False and emits error_occurred.
C16_PlayNeedsMedia ==
    last.op = "play" =>
        /\ last.pre_media = None =>
               /\ last.ret = "False"
               /\ last.emitted = <<"error_occurred">>
               /\ last.backend = <<>>
        /\ last.backend = <<"play = -1">> =>
               /\ last.ret = "False"
               /\ last.emitted = <<"error_occurred">>
        /\ last.ret = "True" => last.backend = <<"play = 0">>

\* C16: play() was refused for want of media on a player that still holds
\* the media of an earlier load and was playing it
C16_Witness ==
    /\ last.op = "play"
    /\ last.since = {}
    /\ last.pre_media = None
    /\ last.pre_state = Some("Playing")
    /\ last.ret = "False"
    /\ player # None
    /\ player[1].media # None

\* C17: load_media returns True and sets current_media_path to its argument
\* when it succeeds; when it fails it returns False, emits error_occurred
\* and leaves current_media_path None, and a play() that follows is refused
\* with an error and without a call of the backend.
C17_LoadMediaSetsOrClears ==
    [][ /\ Called("load_media") =>
               IF last'.ret = "True"
               THEN current_media_path' = last'.file_paths
               ELSE /\ last'.ret = "False"
                    /\ last'.emitted = <<"error_occurred">>
                    /\ current_media_path' = None
        /\ (last.op = "load_media" /\ last.ret = "False" /\ Called("play")) =>
               /\ last'.ret = "False"
               /\ last'.emitted = <<"error_occurred">>
               /\ last'.backend = <<>>
      ]_vars

\* C18: stop() stops the player and leaves current_media_path; play, pause,
\* resume, stop, set_position and set_volume never change current_media_path:
\* a step that changes it is a call of load_media.
C18_OnlyLoadChangesMedia ==
    [][ /\ (Called("stop") /\ player # None) => PlayerState' = "Stopped"
        /\ (\E op \in {"play", "pause", "resume", "stop", "set_position",
                        "set_volume"} : Called(op)) =>
               current_media_path' = current_media_path
        /\ current_media_path' # current_media_path => Called("load_media")
      ]_vars

\* C18: a playing player with media loaded was stopped
C18_Witness ==
    /\ last.op = "stop"
    /\ last.since = {}
    /\ last.pre_state = Some("Playing")
    /\ last.pre_media # None
    /\ PlayerState = "Stopped"
    /\ current_media_path = last.pre_media

\* C19: play() on a player that is stopped, at its end or in error (no
\* load_media has succeeded since, as that would have reset the player)
\* returns False and starts nothing.
C19_PlayRefusedAfterStop ==
    [][ (Called("play") /\ PlayerState \in {"Ended", "Stopped", "Error"}) =>
            /\ last'.ret = "False"
            /\ PlayerState' = PlayerState
      ]_vars

\* C20: an error event of the backend, a failed load_media and a failed
\* play() each leave the player in Error and emit error_occurred; the player
\* leaves Error only by a successful load_media.
C20_ErrorUntilLoad ==
    [][ /\ ( \/ Called("_on_media_error")
             \/ Called("load_media") /\ last'.ret = "False"
             \/ Called("play") /\ last'.ret = "False" ) =>
                /\ PlayerState' = "Error"
                /\ "error_occurred" \in {last'.emitted[k] : k \in DOMAIN last'.emitted}
        /\ (PlayerState = "Error" /\ PlayerState' # "Error") =>
                Called("load_media") /\ last'.ret = "True"
      ]_vars

\* C21: pause, resume, set_position and set_volume called on a player that
\* neither plays nor is paused (fresh, opening, stopped, at its end, in
\* error) send nothing to the backend, change nothing and raise nothing.
C21_NoOpOutsidePlayback ==
    [][ ( /\ \E op \in {"pause", "resume", "set_position", "set_volume"} :
                 Called(op)
          /\ PlayerState \in {"NothingSpecial", "Opening", "Stopped", "Ended",
                              "Error"} ) =>
            /\ last'.backend = <<>>
            /\ last'.raised = "None"
            /\ last'.emitted = <<>>
            /\ UNCHANGED playback
      ]_vars

\* C22: media_position_changed is emitted only by the handler of a position
\* callback that finds the player playing; a callback that arrives while the
\* player is paused, stopped, at its end or released emits nothing.
C22_PositionOnlyWhilePlaying ==
    /\ last.op = "_on_media_position_changed" =>
           last.emitted = IF last.pre_state = Some("Playing")
                          THEN <<"media_position_changed">>
                          ELSE <<>>
    /\ (\E k \in DOMAIN last.emitted :
            last.emitted[k] = "media_position_changed") =>
           last.op = "_on_media_position_changed"

\* C22: a position callback arrived while the player was paused and was
\* not passed on
C22_Witness ==
    /\ last.op = "_on_media_position_changed"
    /\ last.since = {}
    /\ last.pre_state = Some("Paused")
    /\ last.emitted = <<>>
    /\ PlayerState = "Paused"

\* C23: a successful load_media emits no duration itself but leaves one
\* deferred query behind, and every deferred query that fires emits
\* media_duration_changed exactly once, with a value that is not negative;
\* also when another load or a release has come before it fires.
C23_DurationOncePerLoad ==
    [][ /\ (Called("load_media") /\ last'.ret = "True") =>
               /\ timers' = timers + 1
               /\ last'.emitted = <<>>
        /\ Called("_fetch_and_emit_duration") =>
               /\ timers' = timers - 1
               /\ last'.emitted = <<"media_duration_changed">>
               /\ last'.value >= 0
      ]_vars

\* C24: a manager constructed without VLC completes every command and every
\* query without raising, without a player and without a call of the
\* backend.
C24_DegradedNeverRaises ==
    current_media_path = NoAttribute =>
        /\ last.raised = "None"
        /\ last.backend = <<>>
        /\ player = None
        /\ instance = None

\* C25: the first release_player() stops the player, releases the player and
\* then the instance, and forgets both; any further release_player() calls
\* nothing on the backend and changes nothing.
C25_ReleaseOnce ==
    [][ Called("release_player") =>
            IF player # None
            THEN /\ last'.backend =
                        <<"stop", "player.release", "instance.release">>
                 /\ player' = None
                 /\ instance' = None
                 /\ UNCHANGED <<current_media_path, timers>>
            ELSE /\ last'.backend = <<>>
                 /\ UNCHANGED playback
      ]_vars

\* C25: release_player() was called again on a released manager that had
\* media loaded
C25_Witness ==
    /\ last.op = "release_player"
    /\ last.since = {}
    /\ last.pre_state = None
    /\ last.pre_media # None
    /\ last.backend = <<>>
    /\ player = None
    /\ instance = None

\* C30: set_position(x) asks the player for position x, once and at once,
\* when there is a player and its media is seekable; otherwise it calls
\* nothing and changes nothing.  No request is left waiting either way.
C30_SeekOnlyWhenSeekable ==
    [][ Called("set_position") =>
            /\ last'.raised = "None"
            /\ last'.emitted = <<>>
            /\ timers' = timers
            /\ IF player # None /\ vlc_is_seekable(player[1])
               THEN /\ last'.backend = <<"set_position">>
                    /\ player' = Some([player[1] EXCEPT
                                          !.position = last'.position])
                    /\ UNCHANGED <<instance, current_media_path>>
               ELSE /\ last'.backend = <<>>
                    /\ UNCHANGED playback
      ]_vars

\* C30: set_position(50) was called while the player played media it cannot
\* seek in, and no request was made
C30_Witness ==
    /\ last.op = "set_position"
    /\ last.since = {}
    /\ last.position = 50
    /\ last.pre_state = Some("Playing")
    /\ player # None
    /\ player[1].media = Some("A.jpg")
    /\ player[1].position = 0
    /\ last.backend = <<>>

----------------------------------------------------------------------------
(* Properties of the background manager *)

\* the step is the step of _on_media_end_reached that starts at place pc
HandlerStep(pc) == callback.pc = pc /\ Called("_on_media_end_reached")

\* C26: an end-of-media event with _loop on and media loaded emits no
\* media_ended and is followed by one reload of the path it found (media_new,
\* then set_media of that media on the player) and one play(); an event
\* with _loop off or nothing loaded emits media_ended once and reloads
\* nothing.  (A media_new that the backend refuses is left aside.)
C26_LoopReloadsOnce ==
    [][ /\ HandlerStep("idle") =>
               IF _loop /\ Truthy(current_media_path)
               THEN /\ last'.emitted = <<>>
                    /\ callback'.pc = "media_new"
               ELSE /\ last'.emitted = <<"media_ended">>
                    /\ last'.backend = <<>>
                    /\ callback'.pc = "idle"
        /\ (HandlerStep("media_new") /\ last'.raised # "Exception") =>
               /\ callback'.pc = "set_media"
               /\ callback'.media = callback.path
        /\ HandlerStep("set_media") =>
               /\ callback'.pc = "play"
               /\ last'.backend = <<"set_media">>
               /\ player' # None
               /\ player'[1].media = callback.path
        /\ HandlerStep("play") =>
               /\ callback'.pc = "idle"
               /\ last'.backend \in {<<"play = 0">>, <<"play = -1">>}
      ]_vars

\* C27: a loop reload that follows another one comes after some time has
\* passed since that one.
C27_ReloadsApart ==
    [][ (HandlerStep("set_media") /\ player # None /\ clock # -1) =>
            clock > 0
      ]_vars

\* C29: no command runs while the handler _on_media_end_reached is between
\* two of its steps.
C29_HandlersSerialized ==
    [][ callback.pc # "idle" =>
            ~ \E op \in {"load_media", "play", "pause", "stop", "set_loop",
                         "release_player"} : Called(op)
      ]_vars

----------------------------------------------------------------------------
(* Properties of the main assembly *)

\* C28: when media_ended reaches MainWindow with autoPlayNext on and the
\* cursor before the last entry, current_index goes up by one and the entry
\* it is then on is loaded and played; with autoPlayNext off or the cursor
\* on the last entry, current_index stays and nothing is loaded or played.
C28_AdvanceOnEnd ==
    [][ Called("_handle_main_media_ended") =>
            IF auto_play_next(settings) /\ current_index < Len(items) - 1
            THEN /\ current_index' = current_index + 1
                 /\ last'.raised = "None"
                 /\ player # None =>
                        /\ Len(last'.backend) >= 2
                        /\ last'.backend[1] = "media_new"
                        /\ (last'.backend[2] = "set_media" =>
                                /\ current_media_path' =
                                       Some(items'[current_index' + 1].file_path)
                                /\ Len(last'.backend) = 3)
            ELSE /\ current_index' = current_index
                 /\ last'.backend = <<>>
      ]_vars

----------------------------------------------------------------------------
(* Properties of adding and removing entries *)

\* the entry the last call created
Created == items[CHOOSE k \in DOMAIN origin : origin[k] = 0]

\* C31: the entry add_item creates for an existing file is an image when
\* the media_type argument says so or, without one, when the extension is
\* an image's; an image gets the default image duration of the settings
\* (5000 without a settings store), an entry of another type no duration.
C31_DefaultImageDuration ==
    (last.op = "add_item" /\ Len(items) = last.pre_len + 1) =>
        /\ Created.media_type =
               IF Truthy(last.media_type) THEN last.media_type[1]
               ELSE IF last.file_paths[1] = "A.jpg" THEN "image"
               ELSE IF last.file_paths[1] = "B.mp4" THEN "video"
               ELSE "audio"
        /\ Created.duration =
               IF Created.media_type = "image"
               THEN IF settings = None THEN Some(5000)
                    ELSE Some(settings.defaultImageDuration)
               ELSE None

\* C31: B.mp4 was added as an image under settings with another default
\* than 5000
C31_Witness ==
    /\ last.op = "add_item"
    /\ Len(items) = last.pre_len + 1
    /\ last.file_paths = <<"B.mp4">>
    /\ last.media_type = Some("image")
    /\ settings # None
    /\ settings.defaultImageDuration = 3000
    /\ Created.duration = Some(3000)

----------------------------------------------------------------------------
(* Properties of saving and loading *)

\* C32: save_playlist(path) leaves the entries and current_index as they
\* were; when the file is written nothing is raised and
\* current_playlist_path becomes path, when it cannot be written IOError
\* is raised and current_playlist_path stays what it was.
C32_SaveFrame ==
    [][Called("save_playlist") =>
          /\ items' = items
          /\ origin' = [k \in 1..Len(items) |-> k]
          /\ current_index' = current_index
          /\ IF last'.file_paths[1] \in UnwritablePaths
             THEN /\ last'.raised = "IOError"
                  /\ disk' = disk
                  /\ current_playlist_path' = current_playlist_path
             ELSE /\ last'.raised = "None"
                  /\ disk'[last'.file_paths[1]] # None
                  /\ current_playlist_path' = Some(last'.file_paths[1])]_vars

\* C32: a loaded playlist with a selected entry could not be saved to
\* another path
C32_Witness ==
    /\ last.op = "save_playlist"
    /\ last.raised = "IOError"
    /\ last.since = {}
    /\ current_playlist_path = Some("show.json")
    /\ current_index = 1
    /\ Len(items) = 2

\* the file the last call named, as json.load reads it
LoadedData == json_load(disk[last.file_paths[1]][1])

\* an 'items' element is a dict with a string for 'file_path'
IsItemData(data) ==
    /\ json_type(data) = "object"
    /\ "file_path" \in DOMAIN json_value(data)
    /\ json_type(json_value(data).file_path) = "string"

\* the document is a dict whose 'items', if there, is a list of such dicts
IsPlaylistData(data) ==
    /\ json_type(data) = "object"
    /\ "items" \in DOMAIN json_value(data) =>
           /\ json_type(json_value(data).items) = "array"
           /\ \A k \in DOMAIN json_value(json_value(data).items) :
                  IsItemData(json_value(json_value(data).items)[k])

\* the elements of 'items' whose file is there, in their order
KeptItemDatas(data) ==
    IF "items" \notin DOMAIN json_value(data) THEN <<>>
    ELSE SelectSeq(json_value(json_value(data).items),
                   LAMBDA e : LET path == json_value(json_value(e).file_path)
                              IN  path # "" /\ path \in media_files)

\* the entry has the default of every optional field its dict leaves out
HasDefaults(item, data) ==
    LET keys == DOMAIN json_value(data)
    IN  /\ item.file_path = json_value(json_value(data).file_path)
        /\ "media_type" \notin keys =>
               item.media_type = CASE item.file_path = "A.jpg" -> "image"
                                   [] item.file_path = "B.mp4" -> "video"
                                   [] item.file_path = "C.mp3" -> "audio"
                                   [] OTHER -> "unknown"
        /\ "display_name" \notin keys => item.display_name = item.file_path
        /\ "duration" \notin keys => item.duration = None
        /\ "start_point" \notin keys => item.start_point = None
        /\ "end_point" \notin keys => item.end_point = None
        /\ "loop" \notin keys => item.loop = FALSE

\* C33: load_playlist of a file holding a dict whose 'items', if any, is a
\* list of dicts naming a file raises nothing, whatever other keys the dict
\* and its items hold or lack; an entry gets the default of every optional
\* field its dict lacks, and without 'items' the playlist loads empty.
C33_LoadTolerant ==
    (/\ last.op = "load_playlist"
     /\ last.since = {}
     /\ last.file_paths[1] \in DOMAIN disk
     /\ disk[last.file_paths[1]] # None
     /\ well_formed(disk[last.file_paths[1]][1])
     /\ IsPlaylistData(LoadedData)) =>
        /\ last.raised = "None"
        /\ current_playlist_path = Some(last.file_paths[1])
        /\ Len(items) = Len(KeptItemDatas(LoadedData))
        /\ \A k \in DOMAIN items :
               HasDefaults(items[k], KeptItemDatas(LoadedData)[k])

\* C33: a file with a key of its own at the top and in its one item, and
\* no 'settings', was loaded
C33_Witness ==
    /\ last.op = "load_playlist"
    /\ last.since = {}
    /\ last.file_paths = <<"show.json">>
    /\ disk["show.json"] # None
    /\ well_formed(disk["show.json"][1])
    /\ json_type(LoadedData) = "object"
    /\ DOMAIN json_value(LoadedData) = {"version", "items"}
    /\ Len(items) = 1
    /\ items[1].media_type = "audio"
    /\ items[1].loop = FALSE

----------------------------------------------------------------------------
(* Properties of resuming *)

\* C35: resume() sends the pause toggle to the player exactly when the
\* player is there and Paused, and playback goes on; in every other state
\* (playing, stopped, ended, in error, nothing loaded, released) it sends
\* nothing and changes nothing.  A playing session is never paused by it,
\* and a second resume() right after sends nothing and changes nothing.
C35_ResumeOnlyWhenPaused ==
    [][ Called("resume") =>
            /\ last'.raised = "None"
            /\ last'.emitted = <<>>
            /\ IF PlayerState = "Paused"
               THEN /\ last'.backend = <<"pause">>
                    /\ PlayerState' = "Playing"
               ELSE /\ last'.backend = <<>>
                    /\ UNCHANGED playback
            /\ PlayerState = "Playing" => PlayerState' = "Playing"
            /\ resume(PlaybackSelf').backend = <<>>
            /\ resume(PlaybackSelf').player = player'
      ]_vars

\* C35: a paused session was resumed
C35_Witness ==
    /\ last.op = "resume"
    /\ last.since = {}
    /\ last.backend = <<"pause">>
    /\ PlayerState = "Playing"

----------------------------------------------------------------------------
(* Properties of the cursor *)

\* C37: with an entry selected, a move_item within the range, and a
\* remove_item within the range of another entry than the selected one,
\* leave current_index on the entry it was on before the call.
C37_CursorFollowsEntry ==
    (/\ last.pre_index >= 0
     /\ \/ /\ last.op = "move_item"
           /\ 0 <= last.old_index /\ last.old_index < last.pre_len
           /\ 0 <= last.new_index /\ last.new_index < last.pre_len
        \/ /\ last.op = "remove_item"
           /\ 0 <= last.index /\ last.index < last.pre_len
           /\ last.index # last.pre_index) =>
        /\ current_index \in 0..(Len(items) - 1)
        /\ origin[current_index + 1] = last.pre_index + 1

\* C37: the selected last entry of three was moved to the head of the list
C37_Witness ==
    /\ last.op = "move_item"
    /\ last.pre_len = 3
    /\ last.pre_index = 2
    /\ last.old_index = 2
    /\ last.new_index = 0
    /\ current_index = 0
    /\ origin = <<3, 1, 2>>

\* C36: after any sequence of the playlist's operations, loads that fail
\* included, current_index lies within -1 .. len - 1, and get_current_item
\* gives None exactly when current_index is -1.
C36_CursorInRange ==
    /\ -1 <= current_index
    /\ current_index <= Len(items) - 1
    /\ get_current_item(Self) = None <=> current_index = -1

\* C36: a load gave up on the file after clearing the list, which had a
\* selected entry
C36_Witness ==
    /\ last.op = "load_playlist"
    /\ last.raised = "AttributeError"
    /\ last.pre_index = 1
    /\ current_index = -1
    /\ items = <<>>

----------------------------------------------------------------------------
(* Properties of the background loop under interleaving and after release *)

\* C39: the media a loop reload sets on the player is the one
\* current_media_path names at that moment, and the play() that follows
\* starts the media current_media_path names: a reload does not bring back
\* a path that load_media has replaced meanwhile.
C39_ReloadInstallsCurrent ==
    [][ /\ (HandlerStep("set_media") /\ player # None
                                     /\ Truthy(current_media_path)) =>
               player'[1].media = current_media_path
        /\ (HandlerStep("play") /\ player' # None
                                /\ last'.backend = <<"play = 0">>) =>
               player'[1].media = current_media_path
      ]_vars

\* C40: once release_player has run, every command and every notification
\* of the backend that still arrives, the rest of a loop reload included,
\* raises nothing, sends nothing to the released player or instance, and
\* leaves the player released.
C40_QuietAfterRelease ==
    [][ (player = None /\ last' # last /\ last'.since = {}) =>
            /\ last'.raised = "None"
            /\ last'.backend = <<>>
            /\ player' = None
            /\ callback'.pc # "crashed"
      ]_vars

----------------------------------------------------------------------------
(* Properties of the seek slider *)

====
